---- MODULE Spec2Model ----
(***************************************************************************)
(* Model of the dln-taker order pipeline:                                  *)
(*   src/src/executors/executor.ts                                         *)
(*     - Executor (chain registry, constraints per order value)            *)
(*     - UniversalProcessor (process / tryProcess / pickNextOrder /        *)
(*       processOrder), one instance per take chain                        *)
(* The collaborators UniversalProcessor imports but whose code is not part *)
(* of the sources (MempoolService, BatchUnlocker, the registry field       *)
(* usdAmountConfirmations) are modelled from the specification text and    *)
(* are marked as such where they are defined.                              *)
(*                                                                         *)
(* Execution model: JavaScript, single threaded.  Every action below is    *)
(* one synchronous run of code between two suspension points (await).      *)
(* Consecutive awaits of processOrder between which no processor state is  *)
(* read or written are folded into one stage.                              *)
(***************************************************************************)
EXTENDS Integers, Sequences, FiniteSets, TLC

VARIABLES
    \* ---- UniversalProcessor instance state (executor.ts 666-678)
    incomingOrdersMap,   \* Map<orderId, IncomingOrderContext>
    priorityQueue,       \* Set<string>, insertion ordered
    queue,               \* Set<string>, insertion ordered
    isLocked,            \* boolean
    running,             \* the processOrder executions that have not yet been resumed by tryProcess
    params,              \* UniversalProcessorParams of the instance
    takeChain,           \* chain id of the take chain this processor serves
    \* ---- collaborators
    mempool,             \* MempoolService: orderId -> scheduled re-entry
    mempoolService,      \* MempoolService construction arguments
    batchUnlocker,       \* BatchUnlocker: size, pending batches, emitted unlock txs
    peer,                \* the UniversalProcessor instance of a second take chain
    swapConnector,       \* a SwapConnectorImplementationService and its last call
    \* ---- Executor registry (executor.ts 384-407)
    config,              \* the launch configuration handed to Executor.init
    chains,              \* Executor.chains
    initState,           \* "new" | "ready" | "failed"
    probe,               \* last confirmation-policy evaluation (inputs and decision)
    executor,            \* Executor.init calls (made, suspended, completed) and the
                         \* outcome of the last executeOrder and getSupportedChain
    \* ---- observers
    events,              \* number of calls of process so far
    terminal,            \* order ids whose last feed event was Fulfilled or Cancelled
    history              \* fulfill txs sent per order, and the ids whose Fulfilled
                         \* event has been handled

vars == <<incomingOrdersMap, priorityQueue, queue, isLocked, running, params,
          takeChain, mempool, mempoolService, batchUnlocker, peer, swapConnector, config,
          chains,
          initState, probe, executor, events, terminal, history>>

-----------------------------------------------------------------------------
(* Bounds of the model *)

\* calls of process in one behaviour: feed events and mempool re-entries
MaxEvents == 3
\* entries of requiredConfirmationsThresholds in a drawn configuration
MaxThresholds == 2
\* largest thresholdAmountInUSD in a drawn configuration
MaxUsd == 2
\* calls of Executor.init in one behaviour
MaxInitCalls == 2

OrderIds == {"A", "B", "C"}

\* an absent record (a missing Map entry, an undefined object)
None == [none |-> TRUE]
\* an absent string
Nil == "none"
\* JavaScript undefined for a numeric field
Undefined == 0 - 1
\* a key an object literal does not have
Omitted == 0 - 2
\* the object a literal denotes: the keys it has, an explicit undefined included
objectOf(r) == [k \in {key \in DOMAIN r : r[key] # Omitted} |-> r[k]]
\* `object.key || fallback` for an optional list
listOr(r, key) == IF key \in DOMAIN r THEN r[key] ELSE <<>>
\* `object.key || {}` for an optional object
objectOr(r, key) == IF key \in DOMAIN r THEN r[key] ELSE <<>>
\* `object?.key` for an optional number
numberOf(r, key) == IF key \in DOMAIN r THEN r[key] ELSE Undefined

-----------------------------------------------------------------------------
(* Generic helpers *)

Range(s) == {s[i] : i \in DOMAIN s}

\* Array.prototype.push in the place of Set.prototype.add
ArrayPush(s, x) == Append(s, x)

\* Set.prototype.add on an insertion-ordered Set
SetAdd(s, x) == IF x \in Range(s) THEN s ELSE Append(s, x)

\* Set.prototype.delete
SetDelete(s, x) == SelectSeq(s, LAMBDA y : y # x)

\* s without its i-th element
RemoveAt(s, i) == [j \in 1..(Len(s) - 1) |-> IF j < i THEN s[j] ELSE s[j + 1]]

-----------------------------------------------------------------------------
(* Executor: chain registry and per-order-value constraints *)

\* executor.ts 45-56
BLOCK_CONFIRMATIONS_HARD_CAPS ==
    [Arbitrum |-> 15, Avalanche |-> 15, BSC |-> 15, Ethereum |-> 12,
     Fantom |-> 15, Linea |-> 15, Base |-> 15, Optimism |-> 15,
     Polygon |-> 256, Solana |-> 32]

SupportedChain == DOMAIN BLOCK_CONFIRMATIONS_HARD_CAPS

\* getEngineByChainId
getEngineByChainId(chain) == IF chain = "Solana" THEN "Solana" ELSE "EVM"

\* `x || 0` on an optional number
OrZero(x) == IF x = Undefined THEN 0 ELSE x

\* Array.prototype.sort with comparator (a, b) => a.upperThreshold - b.upperThreshold
\* (stable): x goes behind every element that does not compare greater than it.
InsertAsc(sorted, x) ==
    LET before == SelectSeq(sorted, LAMBDA y : y.upperThreshold - x.upperThreshold <= 0)
        after  == SelectSeq(sorted, LAMBDA y : y.upperThreshold - x.upperThreshold > 0)
    IN  before \o <<x>> \o after

RECURSIVE SortSteps(_, _)
SortSteps(done, rest) ==
    IF rest = <<>> THEN done ELSE SortSteps(InsertAsc(done, Head(rest)), Tail(rest))

\* the list left in configuration order
unsorted(list) == list

\* executor.ts 461-462, 485-486: .sort(...) of get{Dst,Src}ConstraintsPerOrderValue
sortByUpperThreshold(list) == SortSteps(<<>>, list)

\* the guard with a strict comparison
exceedsHardCapStrictly(chain, constraint) ==
    BLOCK_CONFIRMATIONS_HARD_CAPS[chain] < OrZero(constraint.minBlockConfirmations)

\* executor.ts 475: the guard that makes getSrcConstraintsPerOrderValue throw
exceedsHardCap(chain, constraint) ==
    BLOCK_CONFIRMATIONS_HARD_CAPS[chain] <= OrZero(constraint.minBlockConfirmations)

\* executor.ts 474-477: whether getSrcConstraintsPerOrderValue throws
srcConstraintsThrow(chain, thresholds) ==
    \E i \in DOMAIN thresholds : exceedsHardCap(chain, thresholds[i])

\* `a || b` on optional numbers: a unless it is undefined or 0
orElse(a, b) == IF a # Undefined /\ a # 0 THEN a ELSE b

\* the value of the range whenever the range gives one, 0 included
coalesce(a, b) == IF a # Undefined THEN a ELSE b

\* executor.ts 465-470, 489-493: get{Dst,Src}Constraints,
\* primary?.fulfillmentDelay || default?.fulfillmentDelay || 0
fulfillmentDelayOf(primaryConstraints, defaultConstraints) ==
    orElse(numberOf(primaryConstraints, "fulfillmentDelay"),
           orElse(numberOf(defaultConstraints, "fulfillmentDelay"), 0))

\* executor.ts 472-487, when it does not throw; defaults is the chain's
\* `constraints`
getSrcConstraintsPerOrderValue(chain, thresholds, defaults) ==
    sortByUpperThreshold(
        [i \in DOMAIN thresholds |->
           [upperThreshold |-> thresholds[i].thresholdAmountInUSD,
            minBlockConfirmations |-> OrZero(thresholds[i].minBlockConfirmations),
            fulfillmentDelay |-> fulfillmentDelayOf(thresholds[i], defaults)]])

\* executor.ts 455-463; defaults is the chain's `dstConstraints`
getDstConstraintsPerOrderValue(thresholds, defaults) ==
    sortByUpperThreshold(
        [i \in DOMAIN thresholds |->
           [upperThreshold |-> thresholds[i].upperThreshold,
            fulfillmentDelay |-> fulfillmentDelayOf(thresholds[i], defaults)]])

\* A private key as a configuration gives it: a secret written in hex, with
\* the prefix 0x, or in base58.
Secrets == {"k1", "k2"}
PrivateKeys == [prefix0x : BOOLEAN, secret : Secrets]

\* String.prototype.startsWith("0x")
startsWith0x(key) == key.prefix0x

\* helpers.hexToBuffer: the bytes a hex text denotes; a base58 text read as
\* hex does not give the bytes of its secret
hexToBuffer(key) == IF key.prefix0x THEN key.secret ELSE "invalid"

\* bs58.decode: the bytes a base58 text denotes; a text with the prefix 0x is
\* no base58 text
bs58Decode(key) == IF key.prefix0x THEN "invalid" ELSE key.secret

\* the codec chosen by the prefix of the key that is decoded
decodeKeyByOwnPrefix(chain, key) ==
    IF startsWith0x(key) THEN hexToBuffer(key) ELSE bs58Decode(key)

\* executor.ts 268-273: decodeKey of the Solana branch; the codec is chosen
\* by the prefix of chain.takerPrivateKey
decodeKey(chain, key) ==
    IF startsWith0x(chain.takerPrivateKey) THEN hexToBuffer(key) ELSE bs58Decode(key)

\* the keys of a chain definition; a definition that leaves them to the
\* reader has hex keys
keysOf(def) ==
    [takerPrivateKey |->
        IF "takerPrivateKey" \in DOMAIN def THEN def.takerPrivateKey
        ELSE [prefix0x |-> TRUE, secret |-> "k1"],
     unlockAuthorityPrivateKey |->
        IF "unlockAuthorityPrivateKey" \in DOMAIN def THEN def.unlockAuthorityPrivateKey
        ELSE [prefix0x |-> TRUE, secret |-> "k2"]]

\* executor.ts 274-281 (Solana: Keypair.fromSecretKey of the decoded key) and
\* 316-317 (EVM: the adapter is given the key as it is written)
providerKey(def, key) ==
    IF def.chain = "Solana" THEN decodeKey(keysOf(def), key) ELSE key

\* Keypair.fromSecretKey rejects bytes that are no secret key
providersThrow(def) ==
    def.chain = "Solana" /\
      \/ providerKey(def, keysOf(def).takerPrivateKey) = "invalid"
      \/ providerKey(def, keysOf(def).unlockAuthorityPrivateKey) = "invalid"

\* executor.ts 392-397: a budget controller as the specification gives it
\* (4.3): a cap and the contributions of the orders in flight
newBudgetController(budget) == [budget |-> OrZero(budget), contributions |-> {}]

\* The registry field read by processOrder (executor.ts 947) as
\* chains[..].usdAmountConfirmations: ranges (usdWorthFrom, usdWorthTo] with a
\* minBlockConfirmations each.  Its construction is not part of the sources; it
\* is derived here from the sorted per-order-value list as the specification
\* describes it: each range starts where the previous one ends, the first at 0.
usdAmountConfirmations(perOrderValue) ==
    [i \in DOMAIN perOrderValue |->
       [usdWorthFrom |-> IF i = 1 THEN 0 ELSE perOrderValue[i - 1].upperThreshold,
        usdWorthTo |-> perOrderValue[i].upperThreshold,
        minBlockConfirmations |-> perOrderValue[i].minBlockConfirmations]]

\* filters.disableFulfill(): the filter a disabled chain gets; it approves no
\* order (specification 7: a blanket deny-dst filter)
DisableFulfill == "disableFulfill"

\* executor.ts 360-373: the chain's dstFilters, the deny filter of a disabled
\* chain, then the global filters
dstFiltersOf(def) ==
    listOr(def, "dstFilters")
      \o (IF "disabled" \in DOMAIN def /\ def.disabled THEN <<DisableFulfill>> ELSE <<>>)
      \o listOr(config, "filters")

\* executor.ts 375-382
srcFiltersOf(def) == listOr(def, "srcFilters")

\* one processor instance whatever the chain
theOneProcessor(chain) == "Polygon"

\* executor.ts 341-358, 1211-1219: the processor initializer is called once
\* per chain and constructs a UniversalProcessor each time; the instance is
\* named by the chain it was constructed for
newProcessor(chain) == chain

\* executor.ts 384-407: the registry entry of one configured chain
chainEntry(def) ==
    LET constraints == objectOr(def, "constraints")
        dstConstraints == objectOr(def, "dstConstraints")
        perOrderValue ==
          getSrcConstraintsPerOrderValue(def.chain, def.requiredConfirmationsThresholds,
                                         constraints)
    IN  [chain |-> def.chain,
         srcFilters |-> srcFiltersOf(def),
         dstFilters |-> dstFiltersOf(def),
         orderProcessor |-> newProcessor(def.chain),
         unlockProvider |-> providerKey(def, keysOf(def).unlockAuthorityPrivateKey),
         fulfillProvider |-> providerKey(def, keysOf(def).takerPrivateKey),
         nonFinalizedOrdersBudgetController |->
            newBudgetController(numberOf(constraints, "nonFinalizedTVLBudget")),
         TVLBudgetController |-> newBudgetController(numberOf(constraints, "TVLBudget")),
         srcConstraints |->
            [fulfillmentDelay |-> fulfillmentDelayOf(constraints, <<>>),
             perOrderValue |-> perOrderValue],
         dstConstraints |->
            [fulfillmentDelay |-> fulfillmentDelayOf(dstConstraints, <<>>),
             perOrderValue |->
                getDstConstraintsPerOrderValue(def.perOrderValueUpperThreshold,
                                               dstConstraints)],
         usdAmountConfirmations |-> usdAmountConfirmations(perOrderValue)]

NoChains == [c \in SupportedChain |-> None]

\* executor.ts 239-408: the loop of Executor.init over config.chains; a throw
\* leaves the chains registered so far and isInitialized false.
RECURSIVE initChains(_, _)
initChains(defs, registry) ==
    IF defs = <<>> THEN [ok |-> TRUE, chains |-> registry]
    ELSE LET def == Head(defs) IN
         IF \/ providersThrow(def)
            \/ srcConstraintsThrow(def.chain, def.requiredConfirmationsThresholds)
         THEN [ok |-> FALSE, chains |-> registry]
         ELSE initChains(Tail(defs), [registry EXCEPT ![def.chain] = chainEntry(def)])

\* executor.ts 947-949: Array.prototype.find over the ranges; 0 when none matches
rangeMatches(range, usdWorth) ==
    range.usdWorthFrom < usdWorth /\ usdWorth <= range.usdWorthTo

findRange(ranges, usdWorth) ==
    LET hits == {i \in DOMAIN ranges : rangeMatches(ranges[i], usdWorth)}
    IN  IF hits = {} THEN 0 ELSE CHOOSE i \in hits : \A j \in hits : i <= j

\* executor.ts 952: `if (range?.minBlockConfirmations)`, the truthiness of a
\* number: undefined range and 0 are both falsy.
rangeFound(ranges, idx) == idx # 0 /\ ranges[idx].minBlockConfirmations # 0

\* executor.ts 946-966: the confirmation check of processOrder for an order
\* announced with Confirmed{announcedConfirmation}
confirmationCheck(ranges, usdWorth, announcedConfirmation) ==
    LET idx == findRange(ranges, usdWorth) IN
    IF rangeFound(ranges, idx)
    THEN IF announcedConfirmation < ranges[idx].minBlockConfirmations
         THEN "underconfirmed"
         ELSE "accept"
    ELSE "norange"

-----------------------------------------------------------------------------
(* Orders and feed events *)

\* The give token of an order: an order is immutable and its id is derived
\* from its data, so the id determines it.  Every order gives on Ethereum.
GiveChain == "Ethereum"
giveTokenOf == [o \in OrderIds |-> IF o = "C" THEN "DOGE" ELSE "USDC"]
GiveTokens == {giveTokenOf[o] : o \in OrderIds}

\* The configured buckets cover USDC on the give chain and hold a reserve
\* token on the take chain; DOGE is in no bucket.
BucketTokens == {"USDC"}

\* OrderInfoStatus values the feed can announce
Statuses == {"Created", "ArchivalCreated", "Fulfilled", "ArchivalFulfilled",
             "Cancelled", "Other"}

\* finalization_info of a Created event; "NA" for every other status
Finalizations == {"Finalized", "Revoked", "Confirmed"}

\* confirmation_blocks_count announced with Confirmed
AnnouncedConfirmations == 1

\* IncomingOrderContext as Executor.executeOrder builds it (executor.ts
\* 578-586): it sets orderInfo and context, and no attempts.
FeedEvents ==
    {[orderId |-> o, status |-> st, finalization |-> f,
      confirmations |-> IF f = "Confirmed" THEN AnnouncedConfirmations ELSE 0,
      attempts |-> Undefined] :
        o \in OrderIds, st \in Statuses, f \in Finalizations \cup {"NA"}}

ValidEvent(e) == (e.status = "Created") <=> (e.finalization # "NA")

created(o) ==
    [orderId |-> o, status |-> "Created", finalization |-> "Finalized",
     confirmations |-> 0, attempts |-> Undefined]

archivalCreated(o) ==
    [orderId |-> o, status |-> "ArchivalCreated", finalization |-> "NA",
     confirmations |-> 0, attempts |-> Undefined]

-----------------------------------------------------------------------------
(* UniversalProcessor: construction *)

\* executor.ts 673-678
defaultParams ==
    [mempoolInterval |-> 60, mempoolMaxDelayStep |-> 30, batchUnlockSize |-> 10]

\* executor.ts 689: Object.assign(this.params, params || {}) copies every key
\* the given object has, whatever its value
assignParams(given) ==
    [k \in DOMAIN defaultParams |->
        IF k \in DOMAIN given THEN given[k] ELSE defaultParams[k]]

\* executor.ts 682-688: the guard of the constructor
constructorThrows(given) ==
    /\ "batchUnlockSize" \in DOMAIN given
    /\ given.batchUnlockSize # Undefined
    /\ (given.batchUnlockSize > 10 \/ given.batchUnlockSize < 1)

\* the unlocker built with the default size instead of the configured one
newBatchUnlockerDefaultSize(p) ==
    [size |-> 10,
     batches |-> [t \in GiveTokens |-> <<>>],
     txs |-> <<>>,
     added |-> [t \in GiveTokens |-> <<>>]]

\* executor.ts 704-708: new BatchUnlocker(logger, takeChain, params.batchUnlockSize)
newBatchUnlocker(p) ==
    [size |-> p.batchUnlockSize,
     batches |-> [t \in GiveTokens |-> <<>>],
     txs |-> <<>>,
     added |-> [t \in GiveTokens |-> <<>>]]

\* executor.ts 710-714: new MempoolService(logger, process, params.mempoolInterval).
\* The delay step is not among the arguments; the service keeps its own.
newMempoolService(p, ownDelayStep) ==
    [maxReprocessDelay |-> p.mempoolInterval, delayStep |-> ownDelayStep]

-----------------------------------------------------------------------------
(* The processor state as one value, so that a handler and the calls it makes
   compose as functions *)

St == [map |-> incomingOrdersMap, pq |-> priorityQueue, q |-> queue,
       locked |-> isLocked, run |-> running, mp |-> mempool, bu |-> batchUnlocker,
       h |-> history]

Commit(s) ==
    /\ incomingOrdersMap' = s.map
    /\ priorityQueue' = s.pq
    /\ queue' = s.q
    /\ isLocked' = s.locked
    /\ running' = s.run
    /\ mempool' = s.mp
    /\ batchUnlocker' = s.bu
    /\ history' = s.h

-----------------------------------------------------------------------------
(* MempoolService, from the specification (4.7): a per-order record; addOrder
   schedules a re-entry after delay = interval + attempts * step and replaces
   a pending one; delete cancels. *)

mempoolDelay(p, delay) ==
    IF delay # Undefined THEN delay
    ELSE mempoolService.maxReprocessDelay + OrZero(p.attempts) * mempoolService.delayStep

mempoolAddOrder(s, p, delay) ==
    [s EXCEPT !.mp[p.orderId] =
        [params |-> p, delay |-> mempoolDelay(p, delay),
         remaining |-> mempoolDelay(p, delay), explicit |-> delay # Undefined]]

mempoolDelete(s, orderId) == [s EXCEPT !.mp[orderId] = None]

-----------------------------------------------------------------------------
(* BatchUnlocker, from the specification (4.9): entries accumulate per give
   token until the batch holds `size` of them; then one unlock is sent with
   the batch and the batch starts anew. *)

batchUnlockOrder(s, orderId) ==
    LET key   == giveTokenOf[orderId]
        batch == Append(s.bu.batches[key], orderId)
        full  == Len(batch) = s.bu.size
    IN  [s EXCEPT !.bu.batches[key] = IF full THEN <<>> ELSE batch,
                  !.bu.txs = IF full THEN Append(@, [key |-> key, orders |-> batch]) ELSE @,
                  !.bu.added[key] = Append(@, orderId)]

-----------------------------------------------------------------------------
(* UniversalProcessor: process, tryProcess, pickNextOrder *)

\* the queues and the map cleared, the mempool left alone
clearInternalQueuesKeepMempool(s, orderId) ==
    [s EXCEPT !.q = SetDelete(@, orderId),
              !.pq = SetDelete(@, orderId),
              !.map[orderId] = None]

\* the map and the mempool cleared, the two queues left alone
clearInternalQueuesKeepQueues(s, orderId) ==
    mempoolDelete([s EXCEPT !.map[orderId] = None], orderId)

\* executor.ts 789-794
clearInternalQueues(s, orderId) ==
    mempoolDelete([s EXCEPT !.q = SetDelete(@, orderId),
                            !.pq = SetDelete(@, orderId),
                            !.map[orderId] = None],
                  orderId)

\* executor.ts 865-878: the synchronous head of processOrder, up to its first
\* await: the bucket lookup.
hasBucket(orderId) == giveTokenOf[orderId] \in BucketTokens

newExecution(p) ==
    [orderId |-> p.orderId, params |-> p,
     pc |-> IF hasBucket(p.orderId) THEN "takeStatus" ELSE "return",
     why |-> IF hasBucket(p.orderId) THEN Nil ELSE "nobucket",
     allowPlaceToMempool |-> TRUE, gasLimit |-> 0]

\* the slot check left out
slotNeverTaken(s) == FALSE

\* executor.ts 804: `if (this.isLocked)`
slotTaken(s) == s.locked

\* the order put at the head of its queue
postponeAhead(s, p) ==
    IF p.status = "ArchivalCreated"
    THEN [s EXCEPT !.q = <<p.orderId>> \o SetDelete(@, p.orderId)]
    ELSE [s EXCEPT !.pq = <<p.orderId>> \o SetDelete(@, p.orderId)]

\* executor.ts 809-824: the queue an order is postponed to
postpone(s, p) ==
    IF p.status = "ArchivalCreated"
    THEN [s EXCEPT !.q = SetAdd(@, p.orderId)]
    ELSE [s EXCEPT !.pq = SetAdd(@, p.orderId)]

\* executor.ts 796-831: tryProcess up to the await of processOrder.  With no
\* data for the order it throws and changes nothing.
tryProcess(s, orderId) ==
    LET p == s.map[orderId] IN
    IF p = None THEN s
    ELSE IF slotTaken(s) THEN postpone(s, p)
    ELSE [s EXCEPT !.locked = TRUE, !.run = Append(@, newExecution(p))]

\* the two queues looked at in the other order
nextOrderIdSecondaryFirst(s) ==
    IF s.q # <<>> THEN Head(s.q)
    ELSE IF s.pq # <<>> THEN Head(s.pq) ELSE Nil

\* executor.ts 846-850: first value of priorityQueue || first value of queue
\* (order ids are non-empty strings, hence truthy)
nextOrderId(s) ==
    IF s.pq # <<>> THEN Head(s.pq)
    ELSE IF s.q # <<>> THEN Head(s.q) ELSE Nil

\* executor.ts 846-857
pickNextOrder(s) ==
    LET nextId == nextOrderId(s) IN
    IF nextId = Nil THEN s
    ELSE [s EXCEPT !.pq = SetDelete(@, nextId), !.q = SetDelete(@, nextId)]

\* tryProcess without its try/catch: a rejection of processOrder ends
\* tryProcess before the slot is released
resumeUncaught(s, i) ==
    IF s.run[i].why = "error"
    THEN [s EXCEPT !.run = RemoveAt(@, i)]
    ELSE LET s1 == [s EXCEPT !.locked = FALSE, !.run = RemoveAt(@, i)]
             nextId == nextOrderId(s1)
         IN  IF nextId = Nil THEN s1 ELSE tryProcess(pickNextOrder(s1), nextId)

\* the slot released and no next order picked
resumeWithoutNext(s, i) == [s EXCEPT !.locked = FALSE, !.run = RemoveAt(@, i)]

\* executor.ts 836-843: the rest of tryProcess once processOrder (execution i)
\* has settled
resume(s, i) ==
    LET s1 == [s EXCEPT !.locked = FALSE, !.run = RemoveAt(@, i)]
        nextId == nextOrderId(s1)
    IN  IF nextId = Nil THEN s1 ELSE tryProcess(pickNextOrder(s1), nextId)

\* executor.ts 749-787
process(s, p) ==
    CASE p.status \in {"Created", "ArchivalCreated"} ->
            tryProcess([s EXCEPT !.map[p.orderId] = p], p.orderId)
      [] p.status = "ArchivalFulfilled" -> batchUnlockOrder(s, p.orderId)
      [] p.status = "Cancelled" -> clearInternalQueues(s, p.orderId)
      [] p.status = "Fulfilled" ->
            batchUnlockOrder(clearInternalQueues(s, p.orderId), p.orderId)
      [] OTHER -> s

-----------------------------------------------------------------------------
(* UniversalProcessor.processOrder, stage by stage.  An execution holds the
   locals of one call: params (read once, executor.ts 860), allowPlaceToMempool
   and evmFulfillGasLimit.  Every awaited call may reject; unless the code
   catches it nearer, the rejection ends processOrder and is caught by
   tryProcess (executor.ts 832). *)

\* gas units estimateGas may answer for the preliminary and for the final tx
PreGasEstimates == {100}
FinalGasEstimates == {100, 140}

\* usd worth an order may have when its confirmations are checked
UsdWorths == 1..(MaxUsd + 1)

\* executor.ts 1038: Math.round(gas * EVM_FULFILL_GAS_MULTIPLIER), multiplier 1.25
gasLimitCap(gas) == (5 * gas + 2) \div 4

\* executor.ts 1124-1126: params.attempts < maxFastTrackAttempts ? fastTrackDelay : undefined
\* (an undefined attempts compares false)
fastTrackDelayFor(p) ==
    IF p.attempts # Undefined /\ p.attempts < 2 THEN 5 ELSE Undefined

goto(s, i, stage) == [s EXCEPT !.run[i].pc = stage]

return(s, i, reason) == [s EXCEPT !.run[i].pc = "return", !.run[i].why = reason]

\* the stage after the balance check (executor.ts 1000)
afterBalance == IF getEngineByChainId(takeChain) = "EVM" THEN "preEstimate" ELSE "profitability"

\* the stage after the profitability check (executor.ts 1117)
afterProfitability == IF getEngineByChainId(takeChain) = "EVM" THEN "finalEstimate" ELSE "send"

\* the take status read but not looked at
takeOrderStatusUnchecked(s, i, answer) ==
    IF answer = "rejected" THEN return(s, i, "error") ELSE goto(s, i, "giveStatus")

\* executor.ts 880-892: getTakeOrderStatus
takeOrderStatus(s, i, answer) ==
    CASE answer = "rejected" -> return(s, i, "error")
      [] answer = "NotSet" -> goto(s, i, "giveStatus")
      [] OTHER -> return(s, i, "taken")

\* a revoked order dropped without clearing it
finalizationCheckNoClear(s, i) ==
    LET p == s.run[i].params IN
    IF p.status # "Created" THEN goto(s, i, "balance")
    ELSE IF p.finalization = "Revoked" THEN return(s, i, "revoked")
    ELSE IF p.finalization = "Confirmed"
         THEN goto([s EXCEPT !.run[i].allowPlaceToMempool = FALSE], i, "usdWorth")
    ELSE goto(s, i, "balance")

\* executor.ts 908-923, 969-973: the finalization info of a Created order
finalizationCheck(s, i) ==
    LET p == s.run[i].params IN
    IF p.status # "Created" THEN goto(s, i, "balance")
    ELSE IF p.finalization = "Revoked"
         THEN return(clearInternalQueues(s, p.orderId), i, "revoked")
    ELSE IF p.finalization = "Confirmed"
         THEN goto([s EXCEPT !.run[i].allowPlaceToMempool = FALSE], i, "usdWorth")
    ELSE goto(s, i, "balance")

\* executor.ts 894-903: getGiveOrderStatus, then the finalization check
giveOrderStatus(s, i, answer) ==
    CASE answer = "rejected" -> return(s, i, "error")
      [] answer = "Created" -> finalizationCheck(s, i)
      [] OTHER -> return(s, i, "inexistent")

\* executor.ts 925-966: price and decimals, then the range check
usdWorthCheck(s, i, usdWorth) ==
    LET p == s.run[i].params
        entry == chains[GiveChain]
        decision == confirmationCheck(entry.usdAmountConfirmations, usdWorth, p.confirmations)
    IN  IF entry = None THEN return(s, i, "error")
        ELSE IF decision = "accept" THEN goto(s, i, "balance")
        ELSE return(s, i, decision)

\* the order dropped on a balance shortfall
onBalanceShortfallDropped(s, i) == s

\* executor.ts 986-994: the mempool call on a balance shortfall
onBalanceShortfall(s, i) == mempoolAddOrder(s, s.run[i].params, Undefined)

\* executor.ts 976-995: decimals, balance
balanceCheck(s, i, answer) ==
    CASE answer = "rejected" -> return(s, i, "error")
      [] answer = "short" -> return(onBalanceShortfall(s, i), i, "balance")
      [] OTHER -> goto(s, i, afterBalance)

\* executor.ts 1005-1045: preliminary fulfill tx, gas price, gas estimate
preEstimateOk(s, i, gas) ==
    goto([s EXCEPT !.run[i].gasLimit = gasLimitCap(gas)], i, "profitability")

\* executor.ts 1046-1056
preEstimateFailed(s, i) ==
    return(mempoolAddOrder(s, s.run[i].params, Undefined), i, "preestimate")

\* executor.ts 1092-1097
onUnprofitable(s, i) ==
    IF s.run[i].allowPlaceToMempool
    THEN mempoolAddOrder(s, s.run[i].params, Undefined)
    ELSE s

\* executor.ts 1065-1116: calculateExpectedTakeAmount, the reserve token check
\* and the construction of the final fulfill tx
profitabilityCheck(s, i, answer) ==
    CASE answer = "rejected" -> return(s, i, "error")
      [] answer = "unprofitable" -> return(onUnprofitable(s, i), i, "unprofitable")
      [] answer = "mismatch" -> return(s, i, "mismatch")
      [] OTHER -> goto(s, i, afterProfitability)

\* executor.ts 1119-1128
finalEstimateOk(s, i, gas) ==
    IF gas > s.run[i].gasLimit
    THEN return(mempoolAddOrder(s, s.run[i].params, fastTrackDelayFor(s.run[i].params)),
                i, "blowout")
    ELSE goto(s, i, "send")

\* executor.ts 1130-1135
finalEstimateFailed(s, i) ==
    return(mempoolAddOrder(s, s.run[i].params, Undefined), i, "gaserror")

\* the order handed to the batch unlocker although the broadcast failed
onSendFailedUnlocked(s, i) ==
    batchUnlockOrder(IF s.run[i].allowPlaceToMempool
                     THEN mempoolAddOrder(s, s.run[i].params, Undefined)
                     ELSE s,
                     s.run[i].orderId)

\* executor.ts 1147-1153
onSendFailed(s, i) ==
    IF s.run[i].allowPlaceToMempool
    THEN mempoolAddOrder(s, s.run[i].params, Undefined)
    ELSE s

\* executor.ts 1141-1153: sendTransaction
sendTransaction(s, i, answer) ==
    IF answer = "rejected"
    THEN return(onSendFailed(s, i), i, "sendfailed")
    ELSE goto([s EXCEPT !.h.sent[s.run[i].orderId] = @ + 1], i, "wait")

\* executor.ts 1155-1162: waitIsOrderFulfilled, cleanup, batchUnlocker.addOrder
orderFulfilled(s, i, answer) ==
    IF answer = "rejected"
    THEN return(s, i, "error")
    ELSE return(batchUnlockOrder(clearInternalQueues(s, s.run[i].orderId), s.run[i].orderId),
                i, "fulfilled")

-----------------------------------------------------------------------------
(* Actions of the order pipeline *)

registryVars == <<config, chains, initState, probe, executor>>
setupVars == <<params, takeChain, mempoolService, peer, swapConnector>>

\* the ids whose Fulfilled event has been handled with no Created or
\* ArchivalCreated event since
observeFeed(s, e) ==
    [s EXCEPT !.h.fulfilled =
        CASE e.status \in {"Created", "ArchivalCreated"} -> @ \ {e.orderId}
          [] e.status = "Fulfilled" -> @ \cup {e.orderId}
          [] OTHER -> @]

\* Executor.executeOrder hands a feed event to process (executor.ts 578-586)
Deliver(e) ==
    /\ initState = "ready"
    /\ ValidEvent(e)
    /\ Commit(observeFeed(process(St, e), e))
    /\ events' = events + 1
    /\ terminal' = CASE e.status \in {"Created", "ArchivalCreated"} -> terminal \ {e.orderId}
                     [] e.status \in {"Fulfilled", "Cancelled"} -> terminal \cup {e.orderId}
                     [] OTHER -> terminal
    /\ UNCHANGED <<registryVars, setupVars>>

\* a feed event within the budget of a behaviour
Feed(e) == events < MaxEvents /\ Deliver(e)

Stage(i, stage, s) ==
    /\ running[i].pc = stage
    /\ Commit(s)
    /\ UNCHANGED <<registryVars, setupVars, events, terminal>>

\* The take chain answers NotSet only for an order no fulfill transaction of
\* this taker has been sent for; any order may have been fulfilled by others.
TakeOrderStates(o) ==
    IF history.sent[o] = 0 THEN {"NotSet", "Fulfilled"} ELSE {"Fulfilled"}

TakeOrderStatus(i) ==
    \E answer \in TakeOrderStates(running[i].orderId) \cup {"rejected"} :
        Stage(i, "takeStatus", takeOrderStatus(St, i, answer))

GiveOrderStatus(i) ==
    \E answer \in {"Created", "NotSet", "rejected"} :
        Stage(i, "giveStatus", giveOrderStatus(St, i, answer))

UsdWorthCheck(i) ==
    \/ \E usdWorth \in UsdWorths : Stage(i, "usdWorth", usdWorthCheck(St, i, usdWorth))
    \/ Stage(i, "usdWorth", return(St, i, "error"))

BalanceCheck(i) ==
    \E answer \in {"enough", "short", "rejected"} :
        Stage(i, "balance", balanceCheck(St, i, answer))

PreEstimate(i) ==
    \/ \E gas \in PreGasEstimates : Stage(i, "preEstimate", preEstimateOk(St, i, gas))
    \/ Stage(i, "preEstimate", preEstimateFailed(St, i))

ProfitabilityCheck(i) ==
    \E answer \in {"profitable", "unprofitable", "mismatch", "rejected"} :
        Stage(i, "profitability", profitabilityCheck(St, i, answer))

FinalEstimate(i) ==
    \/ \E gas \in FinalGasEstimates : Stage(i, "finalEstimate", finalEstimateOk(St, i, gas))
    \/ Stage(i, "finalEstimate", finalEstimateFailed(St, i))

SendTransaction(i) ==
    \E answer \in {"sent", "rejected"} :
        Stage(i, "send", sendTransaction(St, i, answer))

OrderFulfilled(i) ==
    \E answer \in {"fulfilled", "rejected"} :
        Stage(i, "wait", orderFulfilled(St, i, answer))

\* tryProcess continues after `await this.processOrder(orderId)`
Resume(i) == Stage(i, "return", resume(St, i))

\* Time passes until the next scheduled re-entry is due.
Pending == {o \in OrderIds : mempool[o] # None /\ mempool[o].remaining > 0}

AdvanceTime ==
    /\ Pending # {}
    /\ LET step == CHOOSE d \in {mempool[o].remaining : o \in Pending} :
                      \A o \in Pending : d <= mempool[o].remaining
       IN  mempool' = [o \in OrderIds |->
                         IF o \in Pending
                         THEN [mempool[o] EXCEPT !.remaining = @ - step]
                         ELSE mempool[o]]
    /\ UNCHANGED <<incomingOrdersMap, priorityQueue, queue, isLocked, running,
                   batchUnlocker, registryVars, setupVars, events, terminal,
                   history>>

\* A scheduled re-entry fires: the service forgets the record and calls
\* process with the attempts bumped.
Redeliver(o) ==
    /\ mempool[o] # None
    /\ mempool[o].remaining = 0
    /\ LET t == mempool[o]
           p == [t.params EXCEPT !.attempts = OrZero(@) + 1]
       IN  Commit(process(mempoolDelete(St, o), p))
    /\ events' = events + 1
    /\ UNCHANGED <<registryVars, setupVars, terminal>>

\* a re-entry within the budget of a behaviour
MempoolFire(o) == events < MaxEvents /\ Redeliver(o)

-----------------------------------------------------------------------------
(* The pipeline of one take chain, after Executor.init and
   UniversalProcessor.init *)

\* the launch configuration of the pipeline: Ethereum as give chain with two
\* confirmation ranges, and the two take chains
PipelineConfig ==
    [chains |->
       << [chain |-> "Ethereum",
           requiredConfirmationsThresholds |->
             << [thresholdAmountInUSD |-> 1, minBlockConfirmations |-> 1],
                [thresholdAmountInUSD |-> 2, minBlockConfirmations |-> 2] >>,
           perOrderValueUpperThreshold |-> <<>>],
          [chain |-> "Polygon", requiredConfirmationsThresholds |-> <<>>,
           perOrderValueUpperThreshold |-> <<>>],
          [chain |-> "Solana", requiredConfirmationsThresholds |-> <<>>,
           perOrderValueUpperThreshold |-> <<>>] >>]

\* the parameters universalProcessor(...) is called with
PipelineParams == [batchUnlockSize |-> 2]

EmptyPipeline ==
    /\ incomingOrdersMap = [o \in OrderIds |-> None]
    /\ priorityQueue = <<>>
    /\ queue = <<>>
    /\ isLocked = FALSE
    /\ running = <<>>
    /\ mempool = [o \in OrderIds |-> None]
    /\ events = 0
    /\ terminal = {}
    /\ executor = [calls |-> 0, awaiting |-> 0, feedInits |-> 0,
                   last |-> None, lookup |-> None]
    /\ history = [sent |-> [o \in OrderIds |-> 0], fulfilled |-> {}]

Init ==
    /\ EmptyPipeline
    /\ config = PipelineConfig
    /\ chains = initChains(config.chains, NoChains).chains
    /\ initState = "ready"
    /\ probe = None
    /\ params = assignParams(PipelineParams)
    /\ takeChain = "Polygon"
    /\ mempoolService = newMempoolService(params, 30)
    /\ batchUnlocker = newBatchUnlocker(params)
    /\ peer = None
    /\ swapConnector = None

Next ==
    \/ \E e \in FeedEvents : Feed(e)
    \/ \E i \in DOMAIN running : TakeOrderStatus(i)
    \/ \E i \in DOMAIN running : GiveOrderStatus(i)
    \/ \E i \in DOMAIN running : UsdWorthCheck(i)
    \/ \E i \in DOMAIN running : BalanceCheck(i)
    \/ \E i \in DOMAIN running : PreEstimate(i)
    \/ \E i \in DOMAIN running : ProfitabilityCheck(i)
    \/ \E i \in DOMAIN running : FinalEstimate(i)
    \/ \E i \in DOMAIN running : SendTransaction(i)
    \/ \E i \in DOMAIN running : OrderFulfilled(i)
    \/ \E i \in DOMAIN running : Resume(i)
    \/ AdvanceTime
    \/ \E o \in OrderIds : MempoolFire(o)

Spec == Init /\ [][Next]_vars

-----------------------------------------------------------------------------
(* Executor.init on a drawn configuration, and the confirmation check on
   drawn inputs *)

\* chains a drawn configuration may name
ConfigChains == {"Ethereum", "Polygon", "Solana"}

\* minBlockConfirmations a drawn configuration may give (Undefined: omitted)
ConfValues == {Undefined, 0, 11, 12, 32, 256}

\* confirmation_blocks_count the check is tried with
ProbeConfirmations == {0, 5, 11, 31, 255}

SeqsUpTo(n, S) == UNION {[1..k -> S] : k \in 0..n}

SrcThresholds ==
    SeqsUpTo(MaxThresholds,
             [thresholdAmountInUSD : 1..MaxUsd, minBlockConfirmations : ConfValues])

DstThresholds == SeqsUpTo(MaxThresholds, [upperThreshold : 1..MaxUsd])

\* one chain, with either source or destination thresholds
DrawnChainDefinitions ==
    {[chain |-> c, requiredConfirmationsThresholds |-> t,
      perOrderValueUpperThreshold |-> <<>>] : c \in ConfigChains, t \in SrcThresholds}
    \cup
    {[chain |-> c, requiredConfirmationsThresholds |-> <<>>,
      perOrderValueUpperThreshold |-> t] : c \in ConfigChains, t \in DstThresholds}

\* executor.ts 192-453, as far as the registry goes
ExecutorInit ==
    /\ initState = "new"
    /\ LET r == initChains(config.chains, NoChains)
       IN  /\ chains' = r.chains
           /\ initState' = IF r.ok THEN "ready" ELSE "failed"
    /\ UNCHANGED <<incomingOrdersMap, priorityQueue, queue, isLocked, running,
                   mempool, batchUnlocker, setupVars, config, probe, executor, events,
                   terminal, history>>

\* executor.ts 946-966 applied to the registry of the configured chain
ConfirmationProbe ==
    /\ initState = "ready"
    /\ \E usdWorth \in 0..(MaxUsd + 1), announced \in ProbeConfirmations :
         probe' = [usdWorth |-> usdWorth, announced |-> announced,
                   decision |-> confirmationCheck(
                                  chains[config.chains[1].chain].usdAmountConfirmations,
                                  usdWorth, announced)]
    /\ UNCHANGED <<incomingOrdersMap, priorityQueue, queue, isLocked, running,
                   mempool, batchUnlocker, setupVars, config, chains, initState,
                   executor, events, terminal, history>>

InitConfig ==
    /\ EmptyPipeline
    /\ \E def \in DrawnChainDefinitions : config = [chains |-> <<def>>]
    /\ chains = NoChains
    /\ initState = "new"
    /\ probe = None
    /\ params = assignParams(PipelineParams)
    /\ takeChain = "Polygon"
    /\ mempoolService = newMempoolService(params, 30)
    /\ batchUnlocker = newBatchUnlocker(params)
    /\ peer = None
    /\ swapConnector = None

NextConfig == ExecutorInit \/ ConfirmationProbe

SpecConfig == InitConfig /\ [][NextConfig]_vars

-----------------------------------------------------------------------------
(* The mempool under drawn processor parameters: one order, every delay the
   configuration and the service may combine to *)

\* delay steps the mempool service may keep on its own
OwnDelaySteps == {0, 30}

DrawnParams ==
    {objectOf([mempoolInterval |-> i, mempoolMaxDelayStep |-> d, batchUnlockSize |-> 2]) :
        i \in {Omitted, 10}, d \in {Omitted, 60}}

InitMempool ==
    /\ EmptyPipeline
    /\ config = PipelineConfig
    /\ chains = initChains(config.chains, NoChains).chains
    /\ initState = "ready"
    /\ probe = None
    /\ \E given \in DrawnParams : params = assignParams(given)
    /\ takeChain = "Polygon"
    /\ \E d \in OwnDelaySteps : mempoolService = newMempoolService(params, d)
    /\ batchUnlocker = newBatchUnlocker(params)
    /\ peer = None
    /\ swapConnector = None

NextMempool ==
    \/ \E e \in {f \in FeedEvents : f.orderId = "A"} : Feed(e)
    \/ \E i \in DOMAIN running : TakeOrderStatus(i)
    \/ \E i \in DOMAIN running : GiveOrderStatus(i)
    \/ \E i \in DOMAIN running : UsdWorthCheck(i)
    \/ \E i \in DOMAIN running : BalanceCheck(i)
    \/ \E i \in DOMAIN running : PreEstimate(i)
    \/ \E i \in DOMAIN running : ProfitabilityCheck(i)
    \/ \E i \in DOMAIN running : FinalEstimate(i)
    \/ \E i \in DOMAIN running : SendTransaction(i)
    \/ \E i \in DOMAIN running : OrderFulfilled(i)
    \/ \E i \in DOMAIN running : Resume(i)
    \/ AdvanceTime
    \/ \E o \in OrderIds : MempoolFire(o)

SpecMempool == InitMempool /\ [][NextMempool]_vars

-----------------------------------------------------------------------------
(* Executor: init called more than once, and executeOrder with its filters.
   The orders give on GiveChain and take on takeChain; a configuration may
   leave either chain out.  processOrder is not run here: executeOrder ends
   with the call of process. *)

\* filters a configuration may name; each answers true or false per order
FilterNames == {"global", "dst", "src"}

\* whether a filter approves an order, the answers of the named ones given
approves(filter, verdict) == filter # DisableFulfill /\ verdict[filter]

\* executor.ts 171-175
getSupportedChain(chain) ==
    IF chains[chain] = None THEN [error |-> "Unsupported chain"] ELSE chains[chain]

\* the two lists taken from the give chain's dstFilters and the take chain's
\* srcFilters
listOrderFiltersSwapped(take, give) == give.dstFilters \o take.srcFilters

\* executor.ts 534-547: dstFilters@takeChain, then srcFilters@giveChain
listOrderFilters(take, give) == take.dstFilters \o give.srcFilters

\* executor.ts 552-556: filters run for Created and ArchivalCreated only
filtersApply(status) == status \in {"Created", "ArchivalCreated"}

\* executor.ts 515-525: `if (!takeChain)`, `if (!giveChain)`
chainMissing(chain) == chains[chain] = None

\* executeOrder without the two registry checks: an absent chain has no
\* filters and the order goes on
executeOrderUnchecked(e, verdict) ==
    IF filtersApply(e.status)
    THEN LET list == listOr(chains[takeChain], "dstFilters")
                       \o listOr(chains[GiveChain], "srcFilters")
         IN  [outcome |-> IF \A i \in DOMAIN list : approves(list[i], verdict)
                          THEN "passed" ELSE "filtered",
              filtersRun |-> list]
    ELSE [outcome |-> "passed", filtersRun |-> <<>>]

\* executor.ts 508-589: what executeOrder does with an event, the filters'
\* answers given
executeOrder(e, verdict) ==
    IF chainMissing(takeChain) \/ chainMissing(GiveChain)
    THEN [outcome |-> "dropped", filtersRun |-> <<>>]
    ELSE IF filtersApply(e.status)
    THEN LET list == listOrderFilters(getSupportedChain(takeChain),
                                      getSupportedChain(GiveChain))
         IN  [outcome |-> IF \A i \in DOMAIN list : approves(list[i], verdict)
                          THEN "passed" ELSE "filtered",
              filtersRun |-> list]
    ELSE [outcome |-> "passed", filtersRun |-> <<>>]

\* events the feed delivers here
DispatchEvents ==
    {created("A"), archivalCreated("B"),
     [orderId |-> "A", status |-> "Fulfilled", finalization |-> "NA",
      confirmations |-> 0, attempts |-> Undefined]}

ExecuteOrder(e) ==
    /\ initState = "ready"
    /\ events < MaxEvents
    /\ \E verdict \in [FilterNames -> BOOLEAN] :
         LET r == executeOrder(e, verdict)
             passed == r.outcome = "passed"
         IN  /\ Commit(IF passed THEN observeFeed(process(St, e), e) ELSE St)
             /\ terminal' =
                   IF ~passed THEN terminal
                   ELSE IF e.status \in {"Created", "ArchivalCreated"}
                   THEN terminal \ {e.orderId}
                   ELSE IF e.status \in {"Fulfilled", "Cancelled"}
                   THEN terminal \cup {e.orderId}
                   ELSE terminal
             /\ executor' = [executor EXCEPT !.last =
                   [event |-> e, verdict |-> verdict, outcome |-> r.outcome,
                    filtersRun |-> r.filtersRun]]
    /\ events' = events + 1
    /\ UNCHANGED <<config, chains, initState, probe, setupVars>>

GetSupportedChain(chain) ==
    /\ initState = "ready"
    /\ executor' = [executor EXCEPT !.lookup =
                      [chain |-> chain, result |-> getSupportedChain(chain)]]
    /\ UNCHANGED <<incomingOrdersMap, priorityQueue, queue, isLocked, running,
                   mempool, batchUnlocker, setupVars, config, chains, initState,
                   probe, events, terminal, history>>

\* the chains looked up: the two of the orders and one no configuration has
LookedUpChains == {GiveChain, "Polygon", "Solana"}

\* the parameters config.orderProcessor was built with
givenParams == listOr(config, "orderProcessor")

\* executor.ts 192-352: a call passes the isInitialized guard and runs up to
\* its first await; the processor initializer constructs the processor
\* (executor.ts 1211-1219), whose constructor may throw.
InitEnter ==
    /\ executor.calls < MaxInitCalls
    /\ initState # "ready"
    /\ IF constructorThrows(givenParams)
       THEN /\ initState' = "failed"
            /\ executor' = [executor EXCEPT !.calls = @ + 1]
       ELSE /\ initState' = initState
            /\ executor' = [executor EXCEPT !.calls = @ + 1, !.awaiting = @ + 1]
    /\ UNCHANGED <<incomingOrdersMap, priorityQueue, queue, isLocked, running,
                   mempool, batchUnlocker, setupVars, config, chains, probe,
                   events, terminal, history>>

\* executor.ts 193: `if (this.isInitialized) return`
InitReturn ==
    /\ executor.calls < MaxInitCalls
    /\ initState = "ready"
    /\ executor' = [executor EXCEPT !.calls = @ + 1]
    /\ UNCHANGED <<incomingOrdersMap, priorityQueue, queue, isLocked, running,
                   mempool, batchUnlocker, setupVars, config, chains, initState,
                   probe, events, terminal, history>>

\* executor.ts 352-452: a suspended call goes on: the processor of the take
\* chain, newly constructed and initialized (executor.ts 692-714), and the
\* chains are registered, the order feed is initialized, isInitialized is set.
InitFinish ==
    /\ executor.awaiting > 0
    /\ LET r == initChains(config.chains, chains)
       IN  /\ chains' = r.chains
           /\ initState' = IF r.ok \/ initState = "ready" THEN "ready" ELSE "failed"
           /\ executor' = [executor EXCEPT !.awaiting = @ - 1,
                                           !.feedInits = IF r.ok THEN @ + 1 ELSE @]
    /\ params' = assignParams(givenParams)
    /\ batchUnlocker' = newBatchUnlocker(params')
    /\ mempoolService' = newMempoolService(params', mempoolService.delayStep)
    /\ incomingOrdersMap' = [o \in OrderIds |-> None]
    /\ priorityQueue' = <<>>
    /\ queue' = <<>>
    /\ isLocked' = FALSE
    /\ running' = <<>>
    /\ mempool' = [o \in OrderIds |-> None]
    /\ UNCHANGED <<takeChain, peer, swapConnector, config, probe, events, terminal,
                   history>>

\* batchUnlockSize a configuration may give: none, an explicit undefined, or
\* a number
GivenSizes == {Omitted, Undefined, 0, 1, 10, 11}

ethereumDef ==
    [chain |-> "Ethereum", requiredConfirmationsThresholds |-> <<>>,
     perOrderValueUpperThreshold |-> <<>>,
     srcFilters |-> <<"src">>]

polygonDef(disabled) ==
    [chain |-> "Polygon", requiredConfirmationsThresholds |-> <<>>,
     perOrderValueUpperThreshold |-> <<>>,
     dstFilters |-> <<"dst">>, disabled |-> disabled]

executorConfig(defs, size) ==
    [chains |-> defs, filters |-> <<"global">>,
     orderProcessor |-> objectOf([batchUnlockSize |-> size])]

\* both chains with every size, and the configurations that disable the
\* take chain or leave a chain out
ExecutorConfigs ==
    {executorConfig(<<ethereumDef, polygonDef(FALSE)>>, size) : size \in GivenSizes}
    \cup {executorConfig(defs, Omitted) :
             defs \in {<<ethereumDef, polygonDef(TRUE)>>, <<polygonDef(FALSE)>>,
                       <<ethereumDef>>}}

InitExecutor ==
    /\ EmptyPipeline
    /\ config \in ExecutorConfigs
    /\ chains = NoChains
    /\ initState = "new"
    /\ probe = None
    /\ params = defaultParams
    /\ takeChain = "Polygon"
    /\ mempoolService = newMempoolService(params, 30)
    /\ batchUnlocker = newBatchUnlocker(params)
    /\ peer = None
    /\ swapConnector = None

NextExecutor ==
    \/ InitEnter
    \/ InitReturn
    \/ InitFinish
    \/ \E e \in DispatchEvents : ExecuteOrder(e)
    \/ \E chain \in LookedUpChains : GetSupportedChain(chain)

SpecExecutor == InitExecutor /\ [][NextExecutor]_vars

-----------------------------------------------------------------------------
(* Arrivals while an order is in flight: A is delivered to an idle pipeline;
   B, C and B again are delivered while A holds the slot.  Re-entries from
   the mempool are left out: the scenario is about the two queues. *)

ArrivalsDuringFlight ==
    << created("A"), created("B"), archivalCreated("C"), created("B") >>

ScenarioFeed ==
    /\ events < Len(ArrivalsDuringFlight)
    /\ events >= 1 => (running # <<>> /\ running[1].orderId = "A")
    /\ Deliver(ArrivalsDuringFlight[events + 1])

NextScenario ==
    \/ ScenarioFeed
    \/ \E i \in DOMAIN running : TakeOrderStatus(i)
    \/ \E i \in DOMAIN running : GiveOrderStatus(i)
    \/ \E i \in DOMAIN running : BalanceCheck(i)
    \/ \E i \in DOMAIN running : PreEstimate(i)
    \/ \E i \in DOMAIN running : ProfitabilityCheck(i)
    \/ \E i \in DOMAIN running : FinalEstimate(i)
    \/ \E i \in DOMAIN running : SendTransaction(i)
    \/ \E i \in DOMAIN running : OrderFulfilled(i)
    \/ \E i \in DOMAIN running : Resume(i)

SpecScenario == Init /\ [][NextScenario]_vars

-----------------------------------------------------------------------------
(* Two take chains.  Executor.executeOrder hands an event to the processor
   registered for the take chain of its order (executor.ts 515, 578-586).
   The processor of takeChain is the one of the variables above; the one of
   PeerChain is held in peer, as the same state record, and takes the same
   steps.  Order B takes on PeerChain, the other orders on takeChain. *)

PeerChain == "Arbitrum"

takeChainOf == [o \in OrderIds |-> IF o = "B" THEN PeerChain ELSE "Polygon"]

TwoChainsConfig ==
    [chains |->
       << [chain |-> "Ethereum", requiredConfirmationsThresholds |-> <<>>,
           perOrderValueUpperThreshold |-> <<>>],
          [chain |-> "Polygon", requiredConfirmationsThresholds |-> <<>>,
           perOrderValueUpperThreshold |-> <<>>],
          [chain |-> PeerChain, requiredConfirmationsThresholds |-> <<>>,
           perOrderValueUpperThreshold |-> <<>>] >>]

\* executor.ts 665-671, 704-714: the state of a processor after init
newProcessorState(p) ==
    [map |-> [o \in OrderIds |-> None], pq |-> <<>>, q |-> <<>>, locked |-> FALSE,
     run |-> <<>>, mp |-> [o \in OrderIds |-> None], bu |-> newBatchUnlocker(p),
     h |-> [sent |-> [o \in OrderIds |-> 0], fulfilled |-> {}]]

TwoChainsEvents ==
    {created(o) : o \in {"A", "B"}} \cup {archivalCreated(o) : o \in {"A", "B"}}

pipelineVars ==
    <<incomingOrdersMap, priorityQueue, queue, isLocked, running, mempool,
      batchUnlocker, history>>

\* executor.ts 508-589: executeOrder of an event whose chains are configured
\* and which no filter rejects
Dispatch(e) ==
    /\ initState = "ready"
    /\ events < MaxEvents
    /\ IF chains[takeChainOf[e.orderId]].orderProcessor = newProcessor(takeChain)
       THEN Commit(observeFeed(process(St, e), e)) /\ peer' = peer
       ELSE peer' = observeFeed(process(peer, e), e) /\ UNCHANGED pipelineVars
    /\ events' = events + 1
    /\ UNCHANGED <<registryVars, params, takeChain, mempoolService, swapConnector,
                   terminal>>

PeerStep(i, stage, s) ==
    /\ peer.run[i].pc = stage
    /\ peer' = s
    /\ UNCHANGED <<pipelineVars, registryVars, params, takeChain, mempoolService,
                   swapConnector,
                   events, terminal>>

\* processOrder of the peer, one await at a time (executor.ts 859-1163)
PeerProcessOrder(i) ==
    \/ \E answer \in (IF peer.h.sent[peer.run[i].orderId] = 0
                       THEN {"NotSet", "Fulfilled"} ELSE {"Fulfilled"}) \cup {"rejected"} :
          PeerStep(i, "takeStatus", takeOrderStatus(peer, i, answer))
    \/ \E answer \in {"Created", "NotSet", "rejected"} :
          PeerStep(i, "giveStatus", giveOrderStatus(peer, i, answer))
    \/ \E answer \in {"enough", "short", "rejected"} :
          PeerStep(i, "balance", balanceCheck(peer, i, answer))
    \/ \E gas \in PreGasEstimates : PeerStep(i, "preEstimate", preEstimateOk(peer, i, gas))
    \/ PeerStep(i, "preEstimate", preEstimateFailed(peer, i))
    \/ \E answer \in {"profitable", "unprofitable", "mismatch", "rejected"} :
          PeerStep(i, "profitability", profitabilityCheck(peer, i, answer))
    \/ \E gas \in FinalGasEstimates : PeerStep(i, "finalEstimate", finalEstimateOk(peer, i, gas))
    \/ PeerStep(i, "finalEstimate", finalEstimateFailed(peer, i))
    \/ \E answer \in {"sent", "rejected"} :
          PeerStep(i, "send", sendTransaction(peer, i, answer))
    \/ \E answer \in {"fulfilled", "rejected"} :
          PeerStep(i, "wait", orderFulfilled(peer, i, answer))

PeerResume(i) == PeerStep(i, "return", resume(peer, i))

InitTwoChains ==
    /\ EmptyPipeline
    /\ config = TwoChainsConfig
    /\ chains = initChains(config.chains, NoChains).chains
    /\ initState = "ready"
    /\ probe = None
    /\ params = assignParams(PipelineParams)
    /\ takeChain = "Polygon"
    /\ mempoolService = newMempoolService(params, 30)
    /\ batchUnlocker = newBatchUnlocker(params)
    /\ peer = newProcessorState(params)
    /\ swapConnector = None

NextTwoChains ==
    \/ \E e \in TwoChainsEvents : Dispatch(e)
    \/ \E i \in DOMAIN running : TakeOrderStatus(i)
    \/ \E i \in DOMAIN running : GiveOrderStatus(i)
    \/ \E i \in DOMAIN running : BalanceCheck(i)
    \/ \E i \in DOMAIN running : PreEstimate(i)
    \/ \E i \in DOMAIN running : ProfitabilityCheck(i)
    \/ \E i \in DOMAIN running : FinalEstimate(i)
    \/ \E i \in DOMAIN running : SendTransaction(i)
    \/ \E i \in DOMAIN running : OrderFulfilled(i)
    \/ \E i \in DOMAIN running : Resume(i)
    \/ \E i \in DOMAIN peer.run : PeerProcessOrder(i)
    \/ \E i \in DOMAIN peer.run : PeerResume(i)

SpecTwoChains == InitTwoChains /\ [][NextTwoChains]_vars

-----------------------------------------------------------------------------
(* Launch with a Solana chain: every pair of key encodings, and fulfillment
   delays given by the chain, by a range, by both or by neither. *)

\* fulfillmentDelay as a chain gives it by default and as a range gives it
DefaultDelays == {Omitted, 0, 7}
RangeDelays == {Omitted, 0, 5}

solanaDef(taker, unlock, srcDefault, srcRange, dstDefault, dstRange) ==
    [chain |-> "Solana",
     takerPrivateKey |-> taker,
     unlockAuthorityPrivateKey |-> unlock,
     constraints |-> objectOf([fulfillmentDelay |-> srcDefault]),
     requiredConfirmationsThresholds |->
        << objectOf([thresholdAmountInUSD |-> 1, minBlockConfirmations |-> 1,
                     fulfillmentDelay |-> srcRange]) >>,
     dstConstraints |-> objectOf([fulfillmentDelay |-> dstDefault]),
     perOrderValueUpperThreshold |->
        << objectOf([upperThreshold |-> 1, fulfillmentDelay |-> dstRange]) >>]

LaunchConfigs ==
    {[chains |-> <<solanaDef(taker, unlock, srcDefault, srcRange, dstDefault, dstRange)>>] :
        taker \in PrivateKeys, unlock \in PrivateKeys,
        srcDefault \in DefaultDelays, srcRange \in RangeDelays,
        dstDefault \in DefaultDelays, dstRange \in RangeDelays}

InitLaunch ==
    /\ EmptyPipeline
    /\ config \in LaunchConfigs
    /\ chains = NoChains
    /\ initState = "new"
    /\ probe = None
    /\ params = assignParams(PipelineParams)
    /\ takeChain = "Solana"
    /\ mempoolService = newMempoolService(params, 30)
    /\ batchUnlocker = newBatchUnlocker(params)
    /\ peer = None
    /\ swapConnector = None

NextLaunch == ExecutorInit

SpecLaunch == InitLaunch /\ [][NextLaunch]_vars

-----------------------------------------------------------------------------
(* The swap connector service (swap-connector-implementation.service.ts): a
   table from chain id to connector, filled by the constructor, changed by
   initSolana, read by getSupportedChains, getSwap and getEstimate. *)

\* the members of the enum ChainId the table has a row for, with their values
ChainId ==
    [Ethereum |-> 1, BSC |-> 56, Heco |-> 128, Polygon |-> 137, Arbitrum |-> 42161,
     Avalanche |-> 43114, AvalancheTest |-> 43113, Kovan |-> 42, BSCTest |-> 97,
     HecoTest |-> 256, PolygonTest |-> 80001, ArbitrumTest |-> 421611,
     Solana |-> 7565164, Fantom |-> 250, Linea |-> 59144, Base |-> 8453,
     Optimism |-> 10]

ChainIds == {ChainId[n] : n \in DOMAIN ChainId}

\* values as the runtime holds them: a number or a string
num(n) == [type |-> "number", value |-> n]
str(t) == [type |-> "string", value |-> t]

\* ===, on a number and a string never true
strictEquals(a, b) == a.type = b.type /\ a.value = b.value

\* Array.prototype.includes
includes(list, x) == \E i \in DOMAIN list : strictEquals(list[i], x)

\* the key a value denotes in object[value]
propertyKey(v) == IF v.type = "number" THEN ToString(v.value) ELSE v.value

\* the null of a table row
Null == [null |-> TRUE]

OneInchV4Connector(api) == [connector |-> "OneInchV4Connector", api |-> api]
OneInchV5Connector(api) == [connector |-> "OneInchV5Connector", api |-> api]
JupiterConnectorV6(connection, token, n) ==
    [connector |-> "JupiterConnectorV6", solanaConnection |-> connection,
     jupiterApiToken |-> token, maxAccounts |-> n]

\* an object literal keyed by chain ids: its keys are the ids as strings
tableOf(rows) ==
    [k \in {ToString(ChainId[n]) : n \in DOMAIN rows} |->
        rows[CHOOSE n \in DOMAIN rows : ToString(ChainId[n]) = k]]

\* Object.keys
ObjectKeys(object) ==
    LET RECURSIVE list(_)
        list(keys) == IF keys = {} THEN <<>>
                      ELSE LET k == CHOOSE x \in keys : TRUE
                           IN  <<str(k)>> \o list(keys \ {k})
    IN  list(DOMAIN object)

\* `object.key` for an optional key that holds no number
optionalOf(r, key) == IF key \in DOMAIN r THEN r[key] ELSE None

\* service.ts 53-59
initSolana(service, cfg) ==
    [service EXCEPT
        !.connectors[propertyKey(num(ChainId.Solana))] =
            JupiterConnectorV6(cfg.solanaConnection,
                               optionalOf(cfg, "jupiterApiToken"), 19),
        !.supplied = TRUE]

\* service.ts 17-51
newSwapConnectorImplementationService(cfg) ==
    LET oneInchV4Connector == OneInchV4Connector(cfg.oneInchApi)
        oneInchV5Connector == OneInchV5Connector(cfg.oneInchApi)
        service ==
          [connectors |->
             tableOf([Ethereum |-> oneInchV4Connector, BSC |-> oneInchV4Connector,
                      Heco |-> Null, Polygon |-> oneInchV4Connector,
                      Arbitrum |-> oneInchV4Connector,
                      Avalanche |-> oneInchV4Connector, AvalancheTest |-> Null,
                      Kovan |-> Null, BSCTest |-> Null, HecoTest |-> Null,
                      PolygonTest |-> Null, ArbitrumTest |-> Null, Solana |-> Null,
                      Fantom |-> oneInchV4Connector, Linea |-> oneInchV4Connector,
                      Base |-> oneInchV5Connector, Optimism |-> oneInchV4Connector]),
           supplied |-> FALSE,
           last |-> None]
    IN  IF "solanaConnection" \in DOMAIN cfg
        THEN initSolana(service, [k \in DOMAIN cfg \ {"oneInchApi"} |-> cfg[k]])
        ELSE service

\* every key of the table, whatever its row holds
getSupportedChainsUnfiltered(service) == ObjectKeys(service.connectors)

\* service.ts 68-72
getSupportedChains(service) ==
    SelectSeq(ObjectKeys(service.connectors),
              LAMBDA chainId : service.connectors[propertyKey(chainId)] # Null)

\* every row the argument does not list is given null
setSupportedChainsAssigning(service, listed) ==
    [service EXCEPT !.connectors =
        [k \in DOMAIN @ |-> IF includes(listed, str(k)) THEN @[k] ELSE Null]]

\* service.ts 81-86: the rows the argument does not list are compared with
\* null, one by one, and nothing is assigned
setSupportedChains(service, listed) ==
    LET rows == SelectSeq(ObjectKeys(service.connectors),
                          LAMBDA chainId : ~includes(listed, chainId))
        compared == [i \in DOMAIN rows |->
                        service.connectors[propertyKey(rows[i])] = Null]
    IN  service

\* service.ts 88-95
getConnector(service, chainId) ==
    LET connector == service.connectors[propertyKey(chainId)]
    IN  IF connector = Null
        THEN [throws |-> "Unsupported chain in swap connector"]
        ELSE [returns |-> connector]

\* service.ts 61-66, 74-79: the call the connector found is given
dispatch(service, method, chainId) ==
    LET found == getConnector(service, chainId)
    IN  IF "throws" \in DOMAIN found THEN found
        ELSE [returns |-> [connector |-> found.returns, method |-> method,
                           chainId |-> chainId]]

getEstimate(service, chainId) == dispatch(service, "getEstimate", chainId)

getSwap(service, chainId) == dispatch(service, "getSwap", chainId)

SolanaConnections == {"rpc1", "rpc2"}

\* with a Jupiter token and without one
TokenOptions == {[jupiterApiToken |-> str("token")], <<>>}

InitSolanaConfigs ==
    {[k \in DOMAIN t \cup {"solanaConnection"} |->
         IF k = "solanaConnection" THEN c ELSE t[k]] :
        t \in TokenOptions, c \in SolanaConnections}

SwapConfigs ==
    {[k \in DOMAIN o \cup {"oneInchApi"} |->
         IF k = "oneInchApi" THEN "api" ELSE o[k]] :
        o \in InitSolanaConfigs \cup TokenOptions}

\* the arguments setSupportedChains is called with
SupportedChainsArguments ==
    {<<>>, <<num(ChainId.Ethereum)>>, <<num(ChainId.Solana)>>,
     <<num(ChainId.Ethereum), num(ChainId.Solana)>>, <<num(ChainId.Heco)>>}

SwapCall(service, call) ==
    /\ swapConnector # None
    /\ swapConnector' = [service EXCEPT !.last = call]
    /\ UNCHANGED <<pipelineVars, registryVars, params, takeChain, mempoolService,
                   peer, events, terminal>>

InitSolana(cfg) ==
    SwapCall(initSolana(swapConnector, cfg), [method |-> "initSolana"])

SetSupportedChains(listed) ==
    SwapCall(setSupportedChains(swapConnector, listed),
             [method |-> "setSupportedChains", listed |-> listed])

GetSupportedChains ==
    SwapCall(swapConnector,
             [method |-> "getSupportedChains",
              result |-> getSupportedChains(swapConnector)])

GetSwap(chainId) ==
    SwapCall(swapConnector,
             [method |-> "getSwap", result |-> getSwap(swapConnector, num(chainId))])

GetEstimate(chainId) ==
    SwapCall(swapConnector,
             [method |-> "getEstimate",
              result |-> getEstimate(swapConnector, num(chainId))])

InitSwap ==
    /\ EmptyPipeline
    /\ config = PipelineConfig
    /\ chains = NoChains
    /\ initState = "new"
    /\ probe = None
    /\ params = assignParams(PipelineParams)
    /\ takeChain = "Polygon"
    /\ mempoolService = newMempoolService(params, 30)
    /\ batchUnlocker = newBatchUnlocker(params)
    /\ peer = None
    /\ \E cfg \in SwapConfigs :
          swapConnector = newSwapConnectorImplementationService(cfg)

NextSwap ==
    \/ \E cfg \in InitSolanaConfigs : InitSolana(cfg)
    \/ \E listed \in SupportedChainsArguments : SetSupportedChains(listed)
    \/ GetSupportedChains
    \/ \E chainId \in ChainIds : GetSwap(chainId)
    \/ \E chainId \in ChainIds : GetEstimate(chainId)

SpecSwap == InitSwap /\ [][NextSwap]_vars

-----------------------------------------------------------------------------
(* Draining the queues: orders arrive, are postponed, cancelled or fulfilled,
   and every processOrder run settles and is resumed by tryProcess. *)

DrainOrders == {"A", "B"}

DrainEvents ==
    {e \in FeedEvents :
        /\ e.orderId \in DrainOrders
        /\ e.status \in {"Created", "ArchivalCreated", "Cancelled"}
        /\ e.finalization \in {"Finalized", "NA"}}

\* one await of processOrder settles
DrainStage ==
    \E i \in DOMAIN running :
        \/ TakeOrderStatus(i)
        \/ GiveOrderStatus(i)
        \/ BalanceCheck(i)
        \/ PreEstimate(i)
        \/ ProfitabilityCheck(i)
        \/ FinalEstimate(i)
        \/ SendTransaction(i)
        \/ OrderFulfilled(i)

\* tryProcess goes on after processOrder
DrainResume == \E i \in DOMAIN running : Resume(i)

NextDrain ==
    \/ \E e \in DrainEvents : Feed(e)
    \/ DrainStage
    \/ DrainResume

\* every processOrder run terminates and its continuation runs
SpecDrain ==
    Init /\ [][NextDrain]_vars /\ WF_vars(DrainStage) /\ WF_vars(DrainResume)

-----------------------------------------------------------------------------
(* Properties *)

InQueue(q, o) == o \in Range(q)

\* executions of processOrder that have not settled
Active == {i \in DOMAIN running : running[i].pc # "return"}

InFlight(o) == \E i \in Active : running[i].orderId = o

\* C1: at most one processOrder execution is active at a time, and the slot
\* (isLocked) is held from before it starts, across all its suspension points,
\* until tryProcess resumes after it.
SingleSlot ==
    /\ Cardinality(Active) <= 1
    /\ Len(running) <= 1
    /\ running # <<>> => isLocked

\* C1 witness: an order is being processed, suspended at the broadcast, while
\* another event has arrived and been postponed.
SingleSlotWitness ==
    /\ running # <<>>
    /\ running[1].pc = "send"
    /\ priorityQueue # <<>>

\* C2: every order id is in at most one of the priority queue, the secondary
\* queue, the in-flight slot and the mempool.
QueueDisjointness ==
    \A o \in OrderIds :
        Cardinality({k \in {"priority", "secondary", "inflight", "mempool"} :
            \/ k = "priority" /\ InQueue(priorityQueue, o)
            \/ k = "secondary" /\ InQueue(queue, o)
            \/ k = "inflight" /\ InFlight(o)
            \/ k = "mempool" /\ mempool[o] # None}) <= 1

Absent(o) ==
    /\ ~InQueue(priorityQueue, o)
    /\ ~InQueue(queue, o)
    /\ incomingOrdersMap[o] = None
    /\ mempool[o] = None

\* C3: once a Fulfilled or Cancelled event was handled for an order, the order
\* is absent from both queues, the incoming-orders map and the mempool until a
\* new Created or ArchivalCreated event for it is delivered.
TerminalCleanup == \A o \in terminal : Absent(o)

\* C4: when the slot is released with orders waiting, the order processed next
\* is the head of the priority queue if that queue is non-empty and the head
\* of the secondary queue otherwise, and the queue it came from keeps the rest
\* in insertion order.
DrainOrder ==
    [][\A i \in DOMAIN running :
          (running[i].pc = "return" /\ (priorityQueue # <<>> \/ queue # <<>>)
             /\ Resume(i)) =>
             LET next == IF priorityQueue # <<>> THEN Head(priorityQueue) ELSE Head(queue)
             IN  /\ running' # <<>>
                 /\ running'[Len(running')].orderId = next
                 /\ isLocked'
                 /\ priorityQueue # <<>> => priorityQueue' = Tail(priorityQueue)
                 /\ priorityQueue = <<>> =>
                        (priorityQueue' = <<>> /\ queue' = Tail(queue))]_vars

\* C4 witness: processOrder has settled while orders wait in both queues.
DrainOrderWitness ==
    /\ running # <<>>
    /\ running[1].pc = "return"
    /\ priorityQueue # <<>>
    /\ queue # <<>>
    /\ Head(priorityQueue) # Head(queue)

\* C5: an order announced with Confirmed finalization is never placed in the
\* mempool.
NonFinalizedNeverInMempool ==
    \A o \in OrderIds :
        mempool[o] # None => mempool[o].params.finalization # "Confirmed"

ConfiguredChain == config.chains[1].chain

ProbedRanges == chains[ConfiguredChain].usdAmountConfirmations

\* C6: a Confirmed order passes the confirmation check if and only if some
\* configured range has from < worth <= to and the announced confirmations
\* reach that range's minimum, whatever the minimum (0 included).
ConfirmationPolicy ==
    probe # None =>
        ((probe.decision = "accept") <=>
            \E i \in DOMAIN ProbedRanges :
                /\ ProbedRanges[i].usdWorthFrom < probe.usdWorth
                /\ probe.usdWorth <= ProbedRanges[i].usdWorthTo
                /\ probe.announced >= ProbedRanges[i].minBlockConfirmations)

IsAscending(list) ==
    \A i, j \in DOMAIN list : i < j => list[i].upperThreshold <= list[j].upperThreshold

\* C7: the per-order-value lists of an initialized registry are sorted
\* ascending by upper threshold; for every usd worth the range the lookup
\* yields is the first with from < worth <= to, no other range matches, and a
\* worth equal to an upper threshold is matched to a range ending there.
ThresholdOrdering ==
    initState = "ready" =>
        LET entry == chains[ConfiguredChain]
            ranges == entry.usdAmountConfirmations
        IN  /\ IsAscending(entry.srcConstraints.perOrderValue)
            /\ IsAscending(entry.dstConstraints.perOrderValue)
            /\ \A w \in 0..(MaxUsd + 1) :
                 LET idx == findRange(ranges, w) IN
                 /\ \A i \in DOMAIN ranges :
                        (ranges[i].usdWorthFrom < w /\ w <= ranges[i].usdWorthTo) <=> i = idx
                 /\ (\E i \in DOMAIN ranges : ranges[i].usdWorthTo = w) =>
                        (idx # 0 /\ ranges[idx].usdWorthTo = w)

\* C7 witness: thresholds configured in descending order, and a worth equal to
\* the lower threshold accepted under the first range.
ThresholdOrderingWitness ==
    /\ initState = "ready"
    /\ Len(config.chains[1].requiredConfirmationsThresholds) = 2
    /\ config.chains[1].requiredConfirmationsThresholds[1].thresholdAmountInUSD
          > config.chains[1].requiredConfirmationsThresholds[2].thresholdAmountInUSD
    /\ probe # None
    /\ probe.usdWorth = ProbedRanges[1].usdWorthTo
    /\ probe.decision = "accept"

ConfiguredThresholds == config.chains[1].requiredConfirmationsThresholds

OverCap ==
    \E i \in DOMAIN ConfiguredThresholds :
        OrZero(ConfiguredThresholds[i].minBlockConfirmations)
            >= BLOCK_CONFIRMATIONS_HARD_CAPS[ConfiguredChain]

\* C8: init fails whenever a configured minBlockConfirmations is greater than
\* or equal to the chain's hard cap, so every initialized registry holds only
\* minBlockConfirmations strictly below the cap.
HardCapAdmission ==
    /\ (initState # "new" /\ OverCap) => initState = "failed"
    /\ initState = "ready" =>
          \A i \in DOMAIN chains[ConfiguredChain].srcConstraints.perOrderValue :
              chains[ConfiguredChain].srcConstraints.perOrderValue[i].minBlockConfirmations
                  < BLOCK_CONFIRMATIONS_HARD_CAPS[ConfiguredChain]

\* C8 witness: init has failed on Ethereum configured with exactly 12
\* confirmations, the cap itself.
HardCapAdmissionWitness ==
    /\ initState = "failed"
    /\ ConfiguredChain = "Ethereum"
    /\ \E i \in DOMAIN ConfiguredThresholds :
          ConfiguredThresholds[i].minBlockConfirmations = 12
    /\ \A i \in DOMAIN ConfiguredThresholds :
          OrZero(ConfiguredThresholds[i].minBlockConfirmations) <= 12

RECURSIVE UnlockedFor(_, _)
UnlockedFor(txs, key) ==
    IF txs = <<>> THEN <<>>
    ELSE (IF Head(txs).key = key THEN Head(txs).orders ELSE <<>>)
            \o UnlockedFor(Tail(txs), key)

\* C9: per give token, an unlock is emitted exactly when the accumulated
\* orders reach the configured batchUnlockSize: every emitted unlock holds
\* batchUnlockSize orders, fewer stay pending, and the unlocks followed by the
\* pending batch are the orders in the order they were added.
BatchInvariant ==
    /\ \A i \in DOMAIN batchUnlocker.txs :
          Len(batchUnlocker.txs[i].orders) = params.batchUnlockSize
    /\ \A key \in GiveTokens :
          /\ Len(batchUnlocker.batches[key]) < params.batchUnlockSize
          /\ UnlockedFor(batchUnlocker.txs, key) \o batchUnlocker.batches[key]
                = batchUnlocker.added[key]

\* C9 witness: one unlock has been emitted and a further order is pending.
BatchInvariantWitness ==
    /\ Len(batchUnlocker.txs) = 1
    /\ \E key \in GiveTokens : batchUnlocker.batches[key] # <<>>

\* C10: a re-entry scheduled without an explicit delay fires no earlier than
\* mempoolInterval + attempts * mempoolMaxDelayStep seconds after it was
\* scheduled, with the configured parameters.
MempoolBackoff ==
    [][\A o \in OrderIds :
          (MempoolFire(o) /\ ~mempool[o].explicit) =>
              mempool[o].delay - mempool[o].remaining >=
                  params.mempoolInterval
                    + OrZero(mempool[o].params.attempts) * params.mempoolMaxDelayStep]_vars

\* C11: when the final gas estimate exceeds the gas limit cap the transaction
\* is not broadcast and the order is placed in the mempool, with a delay of 5
\* seconds on its first two occurrences; the delay is checked on the
\* occurrence in the first processing of a behaviour, which no other precedes.
GasBlowoutFastTrack ==
    [][\A i \in DOMAIN running :
          (FinalEstimate(i) /\ running'[i].why = "blowout") =>
              LET o == running[i].orderId IN
              /\ history'.sent[o] = history.sent[o]
              /\ mempool'[o] # None
              /\ events = 1 => mempool'[o].delay = 5]_vars

\* C13: when processOrder has failed with an error, tryProcess releases the
\* slot and goes on with the next queued order, priority queue first; with no
\* order waiting the slot is left free.
ErrorReleasesSlot ==
    [][\A i \in DOMAIN running :
          (running[i].pc = "return" /\ running[i].why = "error" /\ Resume(i)) =>
              IF priorityQueue = <<>> /\ queue = <<>>
              THEN ~isLocked' /\ running' = RemoveAt(running, i)
              ELSE LET next == IF priorityQueue # <<>> THEN Head(priorityQueue)
                               ELSE Head(queue)
                   IN  /\ isLocked'
                       /\ Len(running') = Len(running)
                       /\ running'[Len(running')].orderId = next
                       /\ ~InQueue(priorityQueue', next)
                       /\ ~InQueue(queue', next)]_vars

\* C13 witness: processOrder has failed with an error while an order waits.
ErrorReleasesSlotWitness ==
    /\ running # <<>>
    /\ running[1].pc = "return"
    /\ running[1].why = "error"
    /\ priorityQueue # <<>>

CancelledAfterFulfilledNoOp ==
    [][\A e \in FeedEvents :
          (e.status = "Cancelled" /\ e.orderId \in history.fulfilled /\ Feed(e)) =>
              UNCHANGED <<priorityQueue, queue, incomingOrdersMap, mempool,
                          batchUnlocker>>]_vars

Phase(k) ==
    LET inFlight == [i \in DOMAIN running |-> running[i].orderId] IN
    CASE k = 1 -> inFlight = <<"A">> /\ priorityQueue = <<"B">> /\ queue = <<"C">>
      [] k = 2 -> inFlight = <<"B">> /\ priorityQueue = <<>> /\ queue = <<"C">>
      [] k = 3 -> inFlight = <<"C">> /\ priorityQueue = <<>> /\ queue = <<>>
      [] OTHER -> inFlight = <<>> /\ priorityQueue = <<>> /\ queue = <<>> /\ ~isLocked

\* C20: after B (Created), C (ArchivalCreated) and B (Created) have arrived
\* while A is in flight, the completion of A starts B, the completion of B
\* starts C and the completion of C leaves the pipeline idle: B is processed
\* once.
DrainedOnce ==
    [][events = Len(ArrivalsDuringFlight) =>
          \E k \in 1..4 :
              /\ Phase(k)
              /\ IF k < 4 /\ running[1].pc = "return"
                 THEN Phase(k + 1)'
                 ELSE Phase(k)']_vars

\* C20 witness: after the four arrivals, A and B have completed and C is in
\* flight.
DrainedOnceWitness == events = Len(ArrivalsDuringFlight) /\ Phase(3)

-----------------------------------------------------------------------------
(* Executor: filters, unsupported chains, init, processor construction *)

\* the definition a configuration gives for a chain
chainDef(chain) ==
    CHOOSE def \in {config.chains[i] : i \in DOMAIN config.chains} : def.chain = chain

BothConfigured == chains[takeChain] # None /\ chains[GiveChain] # None

\* every filter the configuration names for an order taken on takeChain and
\* given on GiveChain answers true; a disabled take chain denies every order
AllConfiguredApprove(verdict) ==
    /\ \A i \in DOMAIN config.filters : verdict[config.filters[i]]
    /\ \A i \in DOMAIN listOr(chainDef(takeChain), "dstFilters") :
          verdict[chainDef(takeChain).dstFilters[i]]
    /\ \A i \in DOMAIN listOr(chainDef(GiveChain), "srcFilters") :
          verdict[chainDef(GiveChain).srcFilters[i]]
    /\ ~("disabled" \in DOMAIN chainDef(takeChain) /\ chainDef(takeChain).disabled)

\* the step is executeOrder of e: no other action here counts an event
Executed(e) == events' = events + 1 /\ executor'.last.event = e

\* the step is a lookup of the chain
LookedUp(chain) ==
    executor'.lookup # executor.lookup /\ executor'.lookup.chain = chain

PipelineUnchanged ==
    UNCHANGED <<incomingOrdersMap, priorityQueue, queue, isLocked, running,
                mempool, batchUnlocker, history>>

\* C12: an event with status Created or ArchivalCreated whose give and take
\* chains are both configured is passed to the processor of the take chain
\* if and only if every filter among the global filters, the dstFilters of the
\* take chain and the srcFilters of the give chain answers true; an event of
\* another status is passed to the processor and no filter is evaluated.
FilterAdmission ==
    [][\A e \in DispatchEvents :
          (Executed(e) /\ BothConfigured) =>
              LET last == executor'.last
              IN  /\ filtersApply(e.status) =>
                        /\ last.outcome = "passed" <=> AllConfiguredApprove(last.verdict)
                        /\ last.outcome = "passed" => ~Absent(e.orderId)'
                        /\ last.outcome # "passed" => PipelineUnchanged
                  /\ ~filtersApply(e.status) =>
                        /\ last.outcome = "passed"
                        /\ last.filtersRun = <<>>
                        /\ e.orderId \in history'.fulfilled]_vars

FilterAdmissionWitness ==
    /\ BothConfigured
    /\ executor.last # None
    /\ executor.last.event.status = "ArchivalCreated"
    /\ executor.last.outcome = "passed"
    /\ Len(executor.last.filtersRun) = 3
    /\ ~Absent(executor.last.event.orderId)

\* C16: a second call of init, made after the first completed or while the
\* first is awaiting, does not initialize again: the order feed is
\* initialized at most once.
InitOnce == executor.feedInits <= 1

\* C17: a processor constructed with a batchUnlockSize below 1 or above 10
\* fails, and every constructed processor has a batch unlock size within
\* 1..10, 10 when none is given.
BatchUnlockSizeInRange ==
    /\ constructorThrows(givenParams) => initState # "ready"
    /\ initState = "ready" =>
          /\ batchUnlocker.size \in 1..10
          /\ "batchUnlockSize" \notin DOMAIN givenParams => batchUnlocker.size = 10

\* C18: an event whose take chain or give chain is not in the registry is
\* dropped: no filter runs, the processor is not invoked and the pipeline
\* state does not change; getSupportedChain of an absent chain fails with
\* 'Unsupported chain', and of a registered chain answers its entry.
UnsupportedChainDropped ==
    [][/\ \A e \in DispatchEvents :
            (Executed(e) /\ ~BothConfigured) =>
                /\ executor'.last.outcome = "dropped"
                /\ executor'.last.filtersRun = <<>>
                /\ PipelineUnchanged
       /\ \A chain \in LookedUpChains :
            LookedUp(chain) =>
                executor'.lookup.result =
                    IF chains[chain] = None
                    THEN [error |-> "Unsupported chain"] ELSE chains[chain]]_vars

UnsupportedChainDroppedWitness ==
    /\ ~BothConfigured
    /\ executor.last # None
    /\ executor.last.outcome = "dropped"
    /\ executor.lookup # None
    /\ executor.lookup.result = [error |-> "Unsupported chain"]

-----------------------------------------------------------------------------
(* Properties of the pipeline: terminal events, drops, retries *)

\* C22: on an ArchivalFulfilled event, as on a Fulfilled event, process
\* removes the order from both queues, the incoming-orders map and the mempool
\* and hands it to the batch unlocker.
FulfilledEventsClear ==
    [][\A e \in FeedEvents :
          (e.status \in {"ArchivalFulfilled", "Fulfilled"} /\ Feed(e)) =>
              /\ Absent(e.orderId)'
              /\ batchUnlocker'.added[giveTokenOf[e.orderId]] =
                    Append(batchUnlocker.added[giveTokenOf[e.orderId]], e.orderId)]_vars

-----------------------------------------------------------------------------
(* Shortfall and recovery: orders that are allowed in the mempool (Created and
   finalized, or ArchivalCreated) arrive; the reserve balance may be short
   when an order is processed from a feed event and suffices when it is
   processed from a re-entry; every other call succeeds, and the take chain
   reports an order fulfilled only after its fulfill transaction was sent.
   Scheduled re-entries fire whatever the number of events so far. *)

RecoveryOrders == {"A", "B"}

RecoveryEvents ==
    {created(o) : o \in RecoveryOrders} \cup {archivalCreated(o) : o \in RecoveryOrders}

\* how a processOrder execution may have ended under these answers
Favourable ==
    \A i \in DOMAIN running :
        \/ running[i].why \in {Nil, "fulfilled"}
        \/ running[i].why = "balance" /\ running[i].params.attempts = Undefined
        \/ running[i].why = "taken" /\ history.sent[running[i].orderId] > 0

RecoveryStage ==
    \E i \in DOMAIN running :
        \/ TakeOrderStatus(i)
        \/ GiveOrderStatus(i)
        \/ BalanceCheck(i)
        \/ PreEstimate(i)
        \/ ProfitabilityCheck(i)
        \/ FinalEstimate(i)
        \/ SendTransaction(i)
        \/ OrderFulfilled(i)

NextRecovery ==
    \/ \E e \in RecoveryEvents : Feed(e)
    \/ RecoveryStage /\ Favourable'
    \/ \E i \in DOMAIN running : Resume(i)
    \/ AdvanceTime
    \/ \E o \in OrderIds : Redeliver(o)

\* the timers of the mempool service fire and every awaited call settles
SpecRecovery == Init /\ [][NextRecovery]_vars /\ WF_vars(NextRecovery)

\* how often the batch unlocker was handed the order
HandedOver(o) ==
    Cardinality({i \in DOMAIN batchUnlocker.added[giveTokenOf[o]] :
                    batchUnlocker.added[giveTokenOf[o]][i] = o})

\* processOrder has ended for the order on a balance shortfall
EndedOnShortfall(o) ==
    \E i \in DOMAIN running :
        /\ running[i].orderId = o
        /\ running[i].pc = "return"
        /\ running[i].why = "balance"

\* C21: an order allowed in the mempool whose reserve balance is short is
\* placed in the mempool and delivered to process again later; when the
\* balance suffices and every other check passes on the retry, the order is
\* fulfilled and the batch unlocker is handed it, exactly once.
ShortfallThenRecovery ==
    /\ [][\A i \in DOMAIN running :
             (running[i].pc = "balance" /\ running'[i].why = "balance") =>
                 /\ mempool'[running[i].orderId] # None
                 /\ mempool'[running[i].orderId].params = running[i].params]_vars
    /\ [](\A o \in OrderIds : HandedOver(o) <= 1)
    /\ \A o \in RecoveryOrders :
          EndedOnShortfall(o) ~> (HandedOver(o) = 1 /\ Absent(o))

\* C21 witness: an order that came back from the mempool has been fulfilled
\* and handed to the batch unlocker.
ShortfallThenRecoveryWitness ==
    /\ running # <<>>
    /\ running[1].why = "fulfilled"
    /\ running[1].params.attempts = 1
    /\ HandedOver(running[1].orderId) = 1

\* the reasons for which processOrder drops an order for good
UnrecoverableReasons == {"nobucket", "taken", "inexistent", "mismatch"}

\* C23: when processOrder drops an order because no bucket covers its give
\* token, because it is fulfilled on the take chain, because its give-side
\* record is not Created or because the picked reserve token disagrees, the
\* order is absent from the incoming-orders map, both queues and the mempool.
DroppedOrdersForgotten ==
    [][\A i \in DOMAIN running', o \in OrderIds :
          (/\ running'[i].orderId = o
           /\ running'[i].why \in UnrecoverableReasons
           /\ (i \notin DOMAIN running \/ running[i] # running'[i])) =>
              Absent(o)']_vars

\* C24: a Cancelled event for an order that waits in the mempool removes it
\* from the mempool within the call of process, so that no re-entry of the
\* order is scheduled afterwards; the order is left in no queue and not in
\* the incoming-orders map.
CancelledLeavesMempool ==
    [][\A e \in FeedEvents :
          (/\ e.status = "Cancelled"
           /\ mempool[e.orderId] # None
           /\ events' = events + 1
           /\ Feed(e)) =>
              /\ mempool'[e.orderId] = None
              /\ Absent(e.orderId)']_vars

\* C24 witness: processOrder has placed A in the mempool on a balance
\* shortfall and the next event, Cancelled for A, has removed it.
CancelledLeavesMempoolWitness ==
    /\ events = 2
    /\ running # <<>>
    /\ running[1].orderId = "A"
    /\ running[1].why = "balance"
    /\ terminal = {"A"}
    /\ history.fulfilled = {}
    /\ mempool["A"] = None

\* the orders a budget controller of some chain holds a contribution for
Reserved ==
    UNION {chains[c].nonFinalizedOrdersBudgetController.contributions
             \cup chains[c].TVLBudgetController.contributions :
           c \in {d \in SupportedChain : chains[d] # None}}

\* C25: from the decision to fulfill an order (the final transaction is
\* built and about to be sent) until the fulfillment is confirmed or the
\* attempt is given up, a budget controller holds a contribution for the
\* order, and none afterwards; no fulfill transaction is sent for an order
\* without one.
BudgetAccounting ==
    \A o \in OrderIds :
        (\E i \in DOMAIN running :
            running[i].orderId = o /\ running[i].pc \in {"send", "wait"})
          <=> o \in Reserved

\* C26: processOrder hands the order to the batch unlocker only when its
\* fulfill transaction was sent without error and the fulfillment was
\* observed; a step of processOrder that ends in a drop, a mempool placement
\* or a failed broadcast leaves the batch unlocker as it is, and the run that
\* hands the order over leaves no mempool record for it.
UnlockOnlyAfterFulfill ==
    [][events' = events =>
          \A i \in DOMAIN running :
              LET o == running[i].orderId
                  key == giveTokenOf[o]
              IN  IF /\ running[i].pc = "wait"
                     /\ i \in DOMAIN running'
                     /\ running'[i].why = "fulfilled"
                  THEN /\ history.sent[o] >= 1
                       /\ batchUnlocker'.added[key] = Append(batchUnlocker.added[key], o)
                       /\ mempool'[o] = None
                  ELSE /\ batchUnlocker' = batchUnlocker
                       /\ (/\ running[i].pc # "return"
                           /\ running' # running
                           /\ mempool'[o] \notin {mempool[o], None}) =>
                             (running'[i].pc = "return" /\ running'[i].why # "fulfilled")]_vars

\* C26 witness: the fulfillment of A was observed and A was handed to the
\* batch unlocker, after an earlier broadcast for A had failed.
UnlockOnlyAfterFulfillWitness ==
    /\ running # <<>>
    /\ running[1].orderId = "A"
    /\ running[1].why = "fulfilled"
    /\ running[1].params.attempts = 1
    /\ history.sent["A"] = 1
    /\ batchUnlocker.added[giveTokenOf["A"]] = <<"A">>

\* q with o behind the ids it holds, and unchanged when it holds o
Behind(q, o) == IF InQueue(q, o) THEN q ELSE Append(q, o)

\* C27: a re-entry from the mempool goes through process like a feed event,
\* with the attempts bumped, and gets no priority: while the slot is held it
\* is put in the queue of its status behind the ids queued there and the
\* order in flight goes on; with the slot free it is processed.
ReentryNoPriority ==
    [][\A o \in OrderIds :
          (events' = events + 1 /\ mempool[o] # None /\ Redeliver(o)) =>
              LET p == mempool[o].params IN
              /\ incomingOrdersMap'[o] = [p EXCEPT !.attempts = OrZero(@) + 1]
              /\ isLocked'
              /\ IF isLocked
                 THEN /\ running' = running
                      /\ IF p.status = "ArchivalCreated"
                         THEN queue' = Behind(queue, o) /\ priorityQueue' = priorityQueue
                         ELSE priorityQueue' = Behind(priorityQueue, o) /\ queue' = queue
                 ELSE /\ Len(running') = Len(running) + 1
                      /\ running'[Len(running')].orderId = o
                      /\ UNCHANGED <<priorityQueue, queue>>]_vars

\* C27 witness: A has come back from the mempool while B was in flight and
\* a second event for B was waiting; A waits behind it.
ReentryNoPriorityWitness ==
    /\ running # <<>>
    /\ running[1].orderId = "B"
    /\ running[1].pc # "return"
    /\ priorityQueue = <<"B", "A">>
    /\ incomingOrdersMap["A"].attempts = 1

-----------------------------------------------------------------------------
(* Properties of the take chains *)

\* the orders a processor state holds anywhere
HeldBy(s) ==
    {o \in OrderIds :
        \/ s.map[o] # None
        \/ s.mp[o] # None
        \/ InQueue(s.pq, o)
        \/ InQueue(s.q, o)
        \/ \E i \in DOMAIN s.run : s.run[i].orderId = o}

\* C28: take chains run independently.  Each configured chain has a processor
\* of its own; the state of the processor of chain X (slot, queues, incoming
\* map, mempool) holds only orders that take on X, and the same for chain Y; a
\* step that changes the state of one processor leaves the other's unchanged;
\* and an event for Y that arrives while Y's slot is free starts processing on
\* Y at once, without being queued, whether or not X's slot is taken.
ChainsIndependent ==
    /\ [](\A c, d \in SupportedChain :
             (c # d /\ chains[c] # None /\ chains[d] # None)
                 => chains[c].orderProcessor # chains[d].orderProcessor)
    /\ [](peer # None =>
             /\ \A o \in HeldBy(St) : takeChainOf[o] = takeChain
             /\ \A o \in HeldBy(peer) : takeChainOf[o] = PeerChain)
    /\ [][peer # None =>
             /\ peer' # peer => UNCHANGED pipelineVars
             /\ pipelineVars' # pipelineVars => peer' = peer
             /\ (events' = events + 1 /\ peer' # peer /\ ~peer.locked) =>
                   /\ peer'.locked
                   /\ Len(peer'.run) = 1
                   /\ peer'.run[1].pc = "takeStatus"
                   /\ peer'.pq = peer.pq
                   /\ peer'.q = peer.q]_vars

\* C28 witness: an order is at the broadcast on chain X and another one is at
\* the broadcast on chain Y at the same time, neither queue of Y holding it.
ChainsIndependentWitness ==
    /\ peer # None
    /\ isLocked
    /\ running # <<>>
    /\ running[1].orderId = "A"
    /\ running[1].pc = "send"
    /\ peer.run # <<>>
    /\ peer.run[1].orderId = "B"
    /\ peer.run[1].pc = "send"
    /\ peer.pq = <<>>
    /\ peer.q = <<>>

-----------------------------------------------------------------------------
(* Properties of the launch *)

SolanaDef == config.chains[1]

\* C29: for a Solana chain the taker key and the unlock-authority key are each
\* decoded by the codec their own prefix selects (hex with 0x, base58
\* without), whatever the encoding of the other key: the launch succeeds and
\* the providers hold the secrets the two keys denote.
KeyEncodingPerKey ==
    (SolanaDef.chain = "Solana" /\ initState # "new") =>
        /\ initState = "ready"
        /\ chains["Solana"].fulfillProvider =
              decodeKeyByOwnPrefix(SolanaDef, SolanaDef.takerPrivateKey)
        /\ chains["Solana"].unlockProvider =
              decodeKeyByOwnPrefix(SolanaDef, SolanaDef.unlockAuthorityPrivateKey)

\* the delay a range is due: its own value when it gives one, else the chain
\* default when there is one, else 0
dueDelay(range, defaults) ==
    coalesce(numberOf(range, "fulfillmentDelay"),
             coalesce(numberOf(defaults, "fulfillmentDelay"), 0))

\* C30: the fulfillment delay of a registered range is the value the range
\* gives whenever it gives one, an explicit 0 included; the chain default only
\* when the range gives none; and 0 only when neither gives one.  For the
\* source and for the destination constraints.
CoalescingPrecedence ==
    (SolanaDef.chain = "Solana" /\ initState = "ready") =>
        /\ chains["Solana"].srcConstraints.perOrderValue[1].fulfillmentDelay =
              dueDelay(SolanaDef.requiredConfirmationsThresholds[1],
                       SolanaDef.constraints)
        /\ chains["Solana"].dstConstraints.perOrderValue[1].fulfillmentDelay =
              dueDelay(SolanaDef.perOrderValueUpperThreshold[1],
                       SolanaDef.dstConstraints)

-----------------------------------------------------------------------------
(* Properties of the swap connector service *)

\* a call of setSupportedChains has just been made
SetSupportedChainsCalled == swapConnector'.last.method = "setSupportedChains"

Dispatched(result) == "returns" \in DOMAIN result

\* C31: setSupportedChains changes nothing, whatever its argument: the
\* connector table is the same after the call, getSupportedChains returns what
\* it returned before, and getSwap and getEstimate give for every chain,
\* those the argument does not list included, what they gave before.
SetSupportedChainsNoOp ==
    [][SetSupportedChainsCalled =>
          /\ swapConnector'.connectors = swapConnector.connectors
          /\ getSupportedChains(swapConnector') = getSupportedChains(swapConnector)
          /\ \A c \in ChainIds :
                /\ getSwap(swapConnector', num(c)) = getSwap(swapConnector, num(c))
                /\ getEstimate(swapConnector', num(c)) =
                      getEstimate(swapConnector, num(c))
                /\ Dispatched(getSwap(swapConnector, num(c)))
                      => Dispatched(getSwap(swapConnector', num(c)))]_vars

\* C31 witness: setSupportedChains was called with Ethereum only, and Polygon,
\* which the argument does not list, still has its connector.
SetSupportedChainsNoOpWitness ==
    /\ swapConnector # None
    /\ swapConnector.last = [method |-> "setSupportedChains",
                             listed |-> <<num(ChainId.Ethereum)>>]
    /\ Dispatched(getSwap(swapConnector, num(ChainId.Polygon)))

\* getSupportedChains lists the chain, by the key the table has for it
Reported(c) ==
    includes(getSupportedChains(swapConnector), str(propertyKey(num(c))))

\* C32: after any sequence of construction, initSolana and setSupportedChains,
\* getSupportedChains lists a chain if and only if getSwap and getEstimate for
\* that chain are given to a connector; for every other chain both fail with
\* 'Unsupported chain in swap connector'; and Solana is listed if and only if
\* a Solana connection was supplied to the constructor or to initSolana.
SupportedIffDispatched ==
    swapConnector # None =>
        /\ \A c \in ChainIds :
              /\ Reported(c) <=> Dispatched(getSwap(swapConnector, num(c)))
              /\ Reported(c) <=> Dispatched(getEstimate(swapConnector, num(c)))
              /\ ~Reported(c) =>
                    /\ getSwap(swapConnector, num(c)) =
                          [throws |-> "Unsupported chain in swap connector"]
                    /\ getEstimate(swapConnector, num(c)) =
                          [throws |-> "Unsupported chain in swap connector"]
        /\ Reported(ChainId.Solana) <=> swapConnector.supplied

\* C32 witness: a service constructed without a Solana connection was given
\* one by initSolana, setSupportedChains was called, and Solana is listed.
SupportedIffDispatchedWitness ==
    /\ swapConnector # None
    /\ swapConnector.supplied
    /\ swapConnector.last = [method |-> "setSupportedChains", listed |-> <<>>]
    /\ Reported(ChainId.Solana)
    /\ ~Reported(ChainId.Heco)

-----------------------------------------------------------------------------
(* Properties of the queues *)

\* C33: every order id held in the priority queue or in the secondary queue
\* is a key of the incoming-orders map, so that tryProcess finds the data of
\* the order pickNextOrder hands it and does not fail with 'Unexpected:
\* missing data for order'.
QueuedOrdersHaveData ==
    \A o \in Range(priorityQueue) \cup Range(queue) : incomingOrdersMap[o] # None

\* C33 witness: processOrder has returned and the slot is about to be
\* released while an order waits in each queue.
QueuedOrdersHaveDataWitness ==
    /\ running # <<>>
    /\ running[1].orderId = "A"
    /\ running[1].pc = "return"
    /\ priorityQueue = <<"B">>
    /\ queue = <<"C">>

Queued(o) == InQueue(priorityQueue, o) \/ InQueue(queue, o)

\* processOrder has been started for the order
Started(o) == \E i \in DOMAIN running : running[i].orderId = o

\* C34: no order is stranded.  Whenever the slot is free both queues are
\* empty; and, every processOrder run terminating, an order that waits in a
\* queue is eventually handed to processOrder unless a terminal event removes
\* it from the queue first.
NoStrandedOrders ==
    /\ [](~isLocked => (priorityQueue = <<>> /\ queue = <<>>))
    /\ \A o \in DrainOrders : Queued(o) ~> (Started(o) \/ o \in terminal)

\* C34 witness: processOrder has sent the fulfill transaction of one order and
\* returned while another order waits in the priority queue, the moment
\* before tryProcess releases the slot and picks it.
NoStrandedOrdersWitness ==
    /\ running # <<>>
    /\ running[1].orderId = "A"
    /\ running[1].pc = "return"
    /\ history.sent["A"] = 1
    /\ priorityQueue = <<"B">>
    /\ queue = <<>>

====
